---- MODULE Spec2Model ----
(***************************************************************************)
(* Model of the ingestion and normalization pipeline of the fulfillment   *)
(* calendar (App.tsx): header resolution, date normalization, item-list    *)
(* parsing and the materialization of order events from uploaded rows.     *)
(*                                                                         *)
(* Strings are sequences of one-character strings, so that trimming,       *)
(* splitting and the regular expressions of the source are computed        *)
(* character by character.  A calendar day is a record [y, m, d]; the      *)
(* result of a Date that is the local start of a day is that record.       *)
(***************************************************************************)
EXTENDS Integers, Sequences, FiniteSets, TLC

VARIABLES
    tz,       \* local time zone offset of the browser, minutes east of UTC
    now,      \* year of `new Date()` when a date is parsed
    call,     \* the last function call made: [op, ...arguments]
    ret,      \* its result
    events,   \* React state `events` of App
    pending,  \* FileReader reads started by handleFile and not yet loaded
    uploads   \* number of handleFile calls made so far

vars == <<tz, now, call, ret, events, pending, uploads>>

(***************************************************************************)
(* Bounds of the model.                                                    *)
(***************************************************************************)
MaxDay == 32
MaxMonth == 13

(***************************************************************************)
(* Characters and strings.                                                 *)
(***************************************************************************)
\* A string is the sequence of its UTF-16 code units.  A printable code unit
\* of ASCII (U+0020..U+007E), one of Latin-1 (U+0080..U+00FF) or one of the
\* Greek block (U+0380..U+03FF) is written as the character itself, and tab,
\* line feed, form feed and carriage return as "\t", "\n", "\f" and "\r".
\* Every other code unit is written as a token: "U+" and its four hexadecimal
\* digits (a control character "U+0001", "U+007F"; "U+1E9E"; a surrogate
\* "U+D801"), or one of the names BOM, GRAVE, VT, LS, PS.
\* U+FEFF
BOM == "BOM"

\* U+0060, U+000B, U+2028, U+2029
GRAVE == "GRAVE"
VT == "VT"
LS == "LS"
PS == "PS"

\* U+00A0, the no-break space itself
NBSP == " "

\* the other characters of the Unicode category Zs
SpaceSeparators ==
    {"U+1680", "U+2000", "U+2001", "U+2002", "U+2003", "U+2004", "U+2005",
     "U+2006", "U+2007", "U+2008", "U+2009", "U+200A", "U+202F", "U+205F",
     "U+3000"}

DigitChars == <<"0", "1", "2", "3", "4", "5", "6", "7", "8", "9">>

DigitSet == {DigitChars[i] : i \in 1..10}

DigitValueOf == [c \in DigitSet |-> (CHOOSE i \in 1..10 : DigitChars[i] = c) - 1]

IsDigit(c) == c \in DigitSet

DigitVal(c) == DigitValueOf[c]

\* JavaScript \s (and String.prototype.trim): the WhiteSpace and
\* LineTerminator characters of ECMAScript
WhiteSpace == {" ", "\t", "\n", "\r", "\f", VT, NBSP, BOM, LS, PS} \cup SpaceSeparators

IsSpace(c) == c \in WhiteSpace

RECURSIVE TrimLeft(_)
TrimLeft(s) ==
    IF s # <<>> /\ IsSpace(Head(s)) THEN TrimLeft(Tail(s)) ELSE s

RECURSIVE TrimRight(_)
TrimRight(s) ==
    IF s # <<>> /\ IsSpace(s[Len(s)])
    THEN TrimRight(SubSeq(s, 1, Len(s) - 1)) ELSE s

\* String.prototype.trim
Trim(s) == TrimRight(TrimLeft(s))

\* Number(<digits>) / parseInt(<digits>, 10)
RECURSIVE DigitsToNat(_)
DigitsToNat(s) ==
    IF s = <<>> THEN 0
    ELSE 10 * DigitsToNat(SubSeq(s, 1, Len(s) - 1)) + DigitVal(s[Len(s)])

\* n.toString().padStart(2, '0') for 0 <= n <= 99
Pad2(n) == <<DigitChars[(n \div 10) + 1], DigitChars[(n % 10) + 1]>>

\* n.toString() for n >= 0
RECURSIVE NatToStr(_)
NatToStr(n) ==
    IF n < 10 THEN <<DigitChars[n + 1]>>
    ELSE Append(NatToStr(n \div 10), DigitChars[(n % 10) + 1])

UpperChars == <<"A", "B", "C", "D", "E", "F", "G", "H", "I", "J", "K", "L", "M",
                "N", "O", "P", "Q", "R", "S", "T", "U", "V", "W", "X", "Y", "Z">>
LowerChars == <<"a", "b", "c", "d", "e", "f", "g", "h", "i", "j", "k", "l", "m",
                "n", "o", "p", "q", "r", "s", "t", "u", "v", "w", "x", "y", "z">>

UpperSet == {UpperChars[i] : i \in 1..26}

LowerOf == [c \in UpperSet |-> LowerChars[CHOOSE i \in 1..26 : UpperChars[i] = c]]

\* an ASCII capital in lower case, every other character as it is
AsciiLower(c) == IF c \in UpperSet THEN LowerOf[c] ELSE c

\* the capital letters beyond ASCII that are one code unit, and their lower
\* case (Unicode 17.0); U+0130 alone has a lower case of two units
UpperBeyondAscii ==
    <<"À", "Á", "Â", "Ã", "Ä", "Å", "Æ", "Ç", "È", "É", "Ê", "Ë", "Ì", "Í",
      "Î", "Ï", "Ð", "Ñ", "Ò", "Ó", "Ô", "Õ", "Ö", "Ø", "Ù", "Ú", "Û", "Ü",
      "Ý", "Þ", "U+0100", "U+0102", "U+0104", "U+0106", "U+0108", "U+010A",
      "U+010C", "U+010E", "U+0110", "U+0112", "U+0114", "U+0116", "U+0118",
      "U+011A", "U+011C", "U+011E", "U+0120", "U+0122", "U+0124", "U+0126",
      "U+0128", "U+012A", "U+012C", "U+012E", "U+0132", "U+0134", "U+0136",
      "U+0139", "U+013B", "U+013D", "U+013F", "U+0141", "U+0143", "U+0145",
      "U+0147", "U+014A", "U+014C", "U+014E", "U+0150", "U+0152", "U+0154",
      "U+0156", "U+0158", "U+015A", "U+015C", "U+015E", "U+0160", "U+0162",
      "U+0164", "U+0166", "U+0168", "U+016A", "U+016C", "U+016E", "U+0170",
      "U+0172", "U+0174", "U+0176", "U+0178", "U+0179", "U+017B", "U+017D",
      "U+0181", "U+0182", "U+0184", "U+0186", "U+0187", "U+0189", "U+018A",
      "U+018B", "U+018E", "U+018F", "U+0190", "U+0191", "U+0193", "U+0194",
      "U+0196", "U+0197", "U+0198", "U+019C", "U+019D", "U+019F", "U+01A0",
      "U+01A2", "U+01A4", "U+01A6", "U+01A7", "U+01A9", "U+01AC", "U+01AE",
      "U+01AF", "U+01B1", "U+01B2", "U+01B3", "U+01B5", "U+01B7", "U+01B8",
      "U+01BC", "U+01C4", "U+01C5", "U+01C7", "U+01C8", "U+01CA", "U+01CB",
      "U+01CD", "U+01CF", "U+01D1", "U+01D3", "U+01D5", "U+01D7", "U+01D9",
      "U+01DB", "U+01DE", "U+01E0", "U+01E2", "U+01E4", "U+01E6", "U+01E8",
      "U+01EA", "U+01EC", "U+01EE", "U+01F1", "U+01F2", "U+01F4", "U+01F6",
      "U+01F7", "U+01F8", "U+01FA", "U+01FC", "U+01FE", "U+0200", "U+0202",
      "U+0204", "U+0206", "U+0208", "U+020A", "U+020C", "U+020E", "U+0210",
      "U+0212", "U+0214", "U+0216", "U+0218", "U+021A", "U+021C", "U+021E",
      "U+0220", "U+0222", "U+0224", "U+0226", "U+0228", "U+022A", "U+022C",
      "U+022E", "U+0230", "U+0232", "U+023A", "U+023B", "U+023D", "U+023E",
      "U+0241", "U+0243", "U+0244", "U+0245", "U+0246", "U+0248", "U+024A",
      "U+024C", "U+024E", "U+0370", "U+0372", "U+0376", "U+037F", "Ά", "Έ",
      "Ή", "Ί", "Ό", "Ύ", "Ώ", "Α", "Β", "Γ", "Δ", "Ε", "Ζ", "Η", "Θ", "Ι",
      "Κ", "Λ", "Μ", "Ν", "Ξ", "Ο", "Π", "Ρ", "Σ", "Τ", "Υ", "Φ", "Χ", "Ψ",
      "Ω", "Ϊ", "Ϋ", "Ϗ", "Ϙ", "Ϛ", "Ϝ", "Ϟ", "Ϡ", "Ϣ", "Ϥ", "Ϧ", "Ϩ", "Ϫ",
      "Ϭ", "Ϯ", "ϴ", "Ϸ", "Ϲ", "Ϻ", "Ͻ", "Ͼ", "Ͽ", "U+0400", "U+0401",
      "U+0402", "U+0403", "U+0404", "U+0405", "U+0406", "U+0407", "U+0408",
      "U+0409", "U+040A", "U+040B", "U+040C", "U+040D", "U+040E", "U+040F",
      "U+0410", "U+0411", "U+0412", "U+0413", "U+0414", "U+0415", "U+0416",
      "U+0417", "U+0418", "U+0419", "U+041A", "U+041B", "U+041C", "U+041D",
      "U+041E", "U+041F", "U+0420", "U+0421", "U+0422", "U+0423", "U+0424",
      "U+0425", "U+0426", "U+0427", "U+0428", "U+0429", "U+042A", "U+042B",
      "U+042C", "U+042D", "U+042E", "U+042F", "U+0460", "U+0462", "U+0464",
      "U+0466", "U+0468", "U+046A", "U+046C", "U+046E", "U+0470", "U+0472",
      "U+0474", "U+0476", "U+0478", "U+047A", "U+047C", "U+047E", "U+0480",
      "U+048A", "U+048C", "U+048E", "U+0490", "U+0492", "U+0494", "U+0496",
      "U+0498", "U+049A", "U+049C", "U+049E", "U+04A0", "U+04A2", "U+04A4",
      "U+04A6", "U+04A8", "U+04AA", "U+04AC", "U+04AE", "U+04B0", "U+04B2",
      "U+04B4", "U+04B6", "U+04B8", "U+04BA", "U+04BC", "U+04BE", "U+04C0",
      "U+04C1", "U+04C3", "U+04C5", "U+04C7", "U+04C9", "U+04CB", "U+04CD",
      "U+04D0", "U+04D2", "U+04D4", "U+04D6", "U+04D8", "U+04DA", "U+04DC",
      "U+04DE", "U+04E0", "U+04E2", "U+04E4", "U+04E6", "U+04E8", "U+04EA",
      "U+04EC", "U+04EE", "U+04F0", "U+04F2", "U+04F4", "U+04F6", "U+04F8",
      "U+04FA", "U+04FC", "U+04FE", "U+0500", "U+0502", "U+0504", "U+0506",
      "U+0508", "U+050A", "U+050C", "U+050E", "U+0510", "U+0512", "U+0514",
      "U+0516", "U+0518", "U+051A", "U+051C", "U+051E", "U+0520", "U+0522",
      "U+0524", "U+0526", "U+0528", "U+052A", "U+052C", "U+052E", "U+0531",
      "U+0532", "U+0533", "U+0534", "U+0535", "U+0536", "U+0537", "U+0538",
      "U+0539", "U+053A", "U+053B", "U+053C", "U+053D", "U+053E", "U+053F",
      "U+0540", "U+0541", "U+0542", "U+0543", "U+0544", "U+0545", "U+0546",
      "U+0547", "U+0548", "U+0549", "U+054A", "U+054B", "U+054C", "U+054D",
      "U+054E", "U+054F", "U+0550", "U+0551", "U+0552", "U+0553", "U+0554",
      "U+0555", "U+0556", "U+10A0", "U+10A1", "U+10A2", "U+10A3", "U+10A4",
      "U+10A5", "U+10A6", "U+10A7", "U+10A8", "U+10A9", "U+10AA", "U+10AB",
      "U+10AC", "U+10AD", "U+10AE", "U+10AF", "U+10B0", "U+10B1", "U+10B2",
      "U+10B3", "U+10B4", "U+10B5", "U+10B6", "U+10B7", "U+10B8", "U+10B9",
      "U+10BA", "U+10BB", "U+10BC", "U+10BD", "U+10BE", "U+10BF", "U+10C0",
      "U+10C1", "U+10C2", "U+10C3", "U+10C4", "U+10C5", "U+10C7", "U+10CD",
      "U+13A0", "U+13A1", "U+13A2", "U+13A3", "U+13A4", "U+13A5", "U+13A6",
      "U+13A7", "U+13A8", "U+13A9", "U+13AA", "U+13AB", "U+13AC", "U+13AD",
      "U+13AE", "U+13AF", "U+13B0", "U+13B1", "U+13B2", "U+13B3", "U+13B4",
      "U+13B5", "U+13B6", "U+13B7", "U+13B8", "U+13B9", "U+13BA", "U+13BB",
      "U+13BC", "U+13BD", "U+13BE", "U+13BF", "U+13C0", "U+13C1", "U+13C2",
      "U+13C3", "U+13C4", "U+13C5", "U+13C6", "U+13C7", "U+13C8", "U+13C9",
      "U+13CA", "U+13CB", "U+13CC", "U+13CD", "U+13CE", "U+13CF", "U+13D0",
      "U+13D1", "U+13D2", "U+13D3", "U+13D4", "U+13D5", "U+13D6", "U+13D7",
      "U+13D8", "U+13D9", "U+13DA", "U+13DB", "U+13DC", "U+13DD", "U+13DE",
      "U+13DF", "U+13E0", "U+13E1", "U+13E2", "U+13E3", "U+13E4", "U+13E5",
      "U+13E6", "U+13E7", "U+13E8", "U+13E9", "U+13EA", "U+13EB", "U+13EC",
      "U+13ED", "U+13EE", "U+13EF", "U+13F0", "U+13F1", "U+13F2", "U+13F3",
      "U+13F4", "U+13F5", "U+1C89", "U+1C90", "U+1C91", "U+1C92", "U+1C93",
      "U+1C94", "U+1C95", "U+1C96", "U+1C97", "U+1C98", "U+1C99", "U+1C9A",
      "U+1C9B", "U+1C9C", "U+1C9D", "U+1C9E", "U+1C9F", "U+1CA0", "U+1CA1",
      "U+1CA2", "U+1CA3", "U+1CA4", "U+1CA5", "U+1CA6", "U+1CA7", "U+1CA8",
      "U+1CA9", "U+1CAA", "U+1CAB", "U+1CAC", "U+1CAD", "U+1CAE", "U+1CAF",
      "U+1CB0", "U+1CB1", "U+1CB2", "U+1CB3", "U+1CB4", "U+1CB5", "U+1CB6",
      "U+1CB7", "U+1CB8", "U+1CB9", "U+1CBA", "U+1CBD", "U+1CBE", "U+1CBF",
      "U+1E00", "U+1E02", "U+1E04", "U+1E06", "U+1E08", "U+1E0A", "U+1E0C",
      "U+1E0E", "U+1E10", "U+1E12", "U+1E14", "U+1E16", "U+1E18", "U+1E1A",
      "U+1E1C", "U+1E1E", "U+1E20", "U+1E22", "U+1E24", "U+1E26", "U+1E28",
      "U+1E2A", "U+1E2C", "U+1E2E", "U+1E30", "U+1E32", "U+1E34", "U+1E36",
      "U+1E38", "U+1E3A", "U+1E3C", "U+1E3E", "U+1E40", "U+1E42", "U+1E44",
      "U+1E46", "U+1E48", "U+1E4A", "U+1E4C", "U+1E4E", "U+1E50", "U+1E52",
      "U+1E54", "U+1E56", "U+1E58", "U+1E5A", "U+1E5C", "U+1E5E", "U+1E60",
      "U+1E62", "U+1E64", "U+1E66", "U+1E68", "U+1E6A", "U+1E6C", "U+1E6E",
      "U+1E70", "U+1E72", "U+1E74", "U+1E76", "U+1E78", "U+1E7A", "U+1E7C",
      "U+1E7E", "U+1E80", "U+1E82", "U+1E84", "U+1E86", "U+1E88", "U+1E8A",
      "U+1E8C", "U+1E8E", "U+1E90", "U+1E92", "U+1E94", "U+1E9E", "U+1EA0",
      "U+1EA2", "U+1EA4", "U+1EA6", "U+1EA8", "U+1EAA", "U+1EAC", "U+1EAE",
      "U+1EB0", "U+1EB2", "U+1EB4", "U+1EB6", "U+1EB8", "U+1EBA", "U+1EBC",
      "U+1EBE", "U+1EC0", "U+1EC2", "U+1EC4", "U+1EC6", "U+1EC8", "U+1ECA",
      "U+1ECC", "U+1ECE", "U+1ED0", "U+1ED2", "U+1ED4", "U+1ED6", "U+1ED8",
      "U+1EDA", "U+1EDC", "U+1EDE", "U+1EE0", "U+1EE2", "U+1EE4", "U+1EE6",
      "U+1EE8", "U+1EEA", "U+1EEC", "U+1EEE", "U+1EF0", "U+1EF2", "U+1EF4",
      "U+1EF6", "U+1EF8", "U+1EFA", "U+1EFC", "U+1EFE", "U+1F08", "U+1F09",
      "U+1F0A", "U+1F0B", "U+1F0C", "U+1F0D", "U+1F0E", "U+1F0F", "U+1F18",
      "U+1F19", "U+1F1A", "U+1F1B", "U+1F1C", "U+1F1D", "U+1F28", "U+1F29",
      "U+1F2A", "U+1F2B", "U+1F2C", "U+1F2D", "U+1F2E", "U+1F2F", "U+1F38",
      "U+1F39", "U+1F3A", "U+1F3B", "U+1F3C", "U+1F3D", "U+1F3E", "U+1F3F",
      "U+1F48", "U+1F49", "U+1F4A", "U+1F4B", "U+1F4C", "U+1F4D", "U+1F59",
      "U+1F5B", "U+1F5D", "U+1F5F", "U+1F68", "U+1F69", "U+1F6A", "U+1F6B",
      "U+1F6C", "U+1F6D", "U+1F6E", "U+1F6F", "U+1F88", "U+1F89", "U+1F8A",
      "U+1F8B", "U+1F8C", "U+1F8D", "U+1F8E", "U+1F8F", "U+1F98", "U+1F99",
      "U+1F9A", "U+1F9B", "U+1F9C", "U+1F9D", "U+1F9E", "U+1F9F", "U+1FA8",
      "U+1FA9", "U+1FAA", "U+1FAB", "U+1FAC", "U+1FAD", "U+1FAE", "U+1FAF",
      "U+1FB8", "U+1FB9", "U+1FBA", "U+1FBB", "U+1FBC", "U+1FC8", "U+1FC9",
      "U+1FCA", "U+1FCB", "U+1FCC", "U+1FD8", "U+1FD9", "U+1FDA", "U+1FDB",
      "U+1FE8", "U+1FE9", "U+1FEA", "U+1FEB", "U+1FEC", "U+1FF8", "U+1FF9",
      "U+1FFA", "U+1FFB", "U+1FFC", "U+2126", "U+212A", "U+212B", "U+2132",
      "U+2160", "U+2161", "U+2162", "U+2163", "U+2164", "U+2165", "U+2166",
      "U+2167", "U+2168", "U+2169", "U+216A", "U+216B", "U+216C", "U+216D",
      "U+216E", "U+216F", "U+2183", "U+24B6", "U+24B7", "U+24B8", "U+24B9",
      "U+24BA", "U+24BB", "U+24BC", "U+24BD", "U+24BE", "U+24BF", "U+24C0",
      "U+24C1", "U+24C2", "U+24C3", "U+24C4", "U+24C5", "U+24C6", "U+24C7",
      "U+24C8", "U+24C9", "U+24CA", "U+24CB", "U+24CC", "U+24CD", "U+24CE",
      "U+24CF", "U+2C00", "U+2C01", "U+2C02", "U+2C03", "U+2C04", "U+2C05",
      "U+2C06", "U+2C07", "U+2C08", "U+2C09", "U+2C0A", "U+2C0B", "U+2C0C",
      "U+2C0D", "U+2C0E", "U+2C0F", "U+2C10", "U+2C11", "U+2C12", "U+2C13",
      "U+2C14", "U+2C15", "U+2C16", "U+2C17", "U+2C18", "U+2C19", "U+2C1A",
      "U+2C1B", "U+2C1C", "U+2C1D", "U+2C1E", "U+2C1F", "U+2C20", "U+2C21",
      "U+2C22", "U+2C23", "U+2C24", "U+2C25", "U+2C26", "U+2C27", "U+2C28",
      "U+2C29", "U+2C2A", "U+2C2B", "U+2C2C", "U+2C2D", "U+2C2E", "U+2C2F",
      "U+2C60", "U+2C62", "U+2C63", "U+2C64", "U+2C67", "U+2C69", "U+2C6B",
      "U+2C6D", "U+2C6E", "U+2C6F", "U+2C70", "U+2C72", "U+2C75", "U+2C7E",
      "U+2C7F", "U+2C80", "U+2C82", "U+2C84", "U+2C86", "U+2C88", "U+2C8A",
      "U+2C8C", "U+2C8E", "U+2C90", "U+2C92", "U+2C94", "U+2C96", "U+2C98",
      "U+2C9A", "U+2C9C", "U+2C9E", "U+2CA0", "U+2CA2", "U+2CA4", "U+2CA6",
      "U+2CA8", "U+2CAA", "U+2CAC", "U+2CAE", "U+2CB0", "U+2CB2", "U+2CB4",
      "U+2CB6", "U+2CB8", "U+2CBA", "U+2CBC", "U+2CBE", "U+2CC0", "U+2CC2",
      "U+2CC4", "U+2CC6", "U+2CC8", "U+2CCA", "U+2CCC", "U+2CCE", "U+2CD0",
      "U+2CD2", "U+2CD4", "U+2CD6", "U+2CD8", "U+2CDA", "U+2CDC", "U+2CDE",
      "U+2CE0", "U+2CE2", "U+2CEB", "U+2CED", "U+2CF2", "U+A640", "U+A642",
      "U+A644", "U+A646", "U+A648", "U+A64A", "U+A64C", "U+A64E", "U+A650",
      "U+A652", "U+A654", "U+A656", "U+A658", "U+A65A", "U+A65C", "U+A65E",
      "U+A660", "U+A662", "U+A664", "U+A666", "U+A668", "U+A66A", "U+A66C",
      "U+A680", "U+A682", "U+A684", "U+A686", "U+A688", "U+A68A", "U+A68C",
      "U+A68E", "U+A690", "U+A692", "U+A694", "U+A696", "U+A698", "U+A69A",
      "U+A722", "U+A724", "U+A726", "U+A728", "U+A72A", "U+A72C", "U+A72E",
      "U+A732", "U+A734", "U+A736", "U+A738", "U+A73A", "U+A73C", "U+A73E",
      "U+A740", "U+A742", "U+A744", "U+A746", "U+A748", "U+A74A", "U+A74C",
      "U+A74E", "U+A750", "U+A752", "U+A754", "U+A756", "U+A758", "U+A75A",
      "U+A75C", "U+A75E", "U+A760", "U+A762", "U+A764", "U+A766", "U+A768",
      "U+A76A", "U+A76C", "U+A76E", "U+A779", "U+A77B", "U+A77D", "U+A77E",
      "U+A780", "U+A782", "U+A784", "U+A786", "U+A78B", "U+A78D", "U+A790",
      "U+A792", "U+A796", "U+A798", "U+A79A", "U+A79C", "U+A79E", "U+A7A0",
      "U+A7A2", "U+A7A4", "U+A7A6", "U+A7A8", "U+A7AA", "U+A7AB", "U+A7AC",
      "U+A7AD", "U+A7AE", "U+A7B0", "U+A7B1", "U+A7B2", "U+A7B3", "U+A7B4",
      "U+A7B6", "U+A7B8", "U+A7BA", "U+A7BC", "U+A7BE", "U+A7C0", "U+A7C2",
      "U+A7C4", "U+A7C5", "U+A7C6", "U+A7C7", "U+A7C9", "U+A7CB", "U+A7CC",
      "U+A7CE", "U+A7D0", "U+A7D2", "U+A7D4", "U+A7D6", "U+A7D8", "U+A7DA",
      "U+A7DC", "U+A7F5", "U+FF21", "U+FF22", "U+FF23", "U+FF24", "U+FF25",
      "U+FF26", "U+FF27", "U+FF28", "U+FF29", "U+FF2A", "U+FF2B", "U+FF2C",
      "U+FF2D", "U+FF2E", "U+FF2F", "U+FF30", "U+FF31", "U+FF32", "U+FF33",
      "U+FF34", "U+FF35", "U+FF36", "U+FF37", "U+FF38", "U+FF39", "U+FF3A">>
LowerBeyondAscii ==
    <<"à", "á", "â", "ã", "ä", "å", "æ", "ç", "è", "é", "ê", "ë", "ì", "í",
      "î", "ï", "ð", "ñ", "ò", "ó", "ô", "õ", "ö", "ø", "ù", "ú", "û", "ü",
      "ý", "þ", "U+0101", "U+0103", "U+0105", "U+0107", "U+0109", "U+010B",
      "U+010D", "U+010F", "U+0111", "U+0113", "U+0115", "U+0117", "U+0119",
      "U+011B", "U+011D", "U+011F", "U+0121", "U+0123", "U+0125", "U+0127",
      "U+0129", "U+012B", "U+012D", "U+012F", "U+0133", "U+0135", "U+0137",
      "U+013A", "U+013C", "U+013E", "U+0140", "U+0142", "U+0144", "U+0146",
      "U+0148", "U+014B", "U+014D", "U+014F", "U+0151", "U+0153", "U+0155",
      "U+0157", "U+0159", "U+015B", "U+015D", "U+015F", "U+0161", "U+0163",
      "U+0165", "U+0167", "U+0169", "U+016B", "U+016D", "U+016F", "U+0171",
      "U+0173", "U+0175", "U+0177", "ÿ", "U+017A", "U+017C", "U+017E",
      "U+0253", "U+0183", "U+0185", "U+0254", "U+0188", "U+0256", "U+0257",
      "U+018C", "U+01DD", "U+0259", "U+025B", "U+0192", "U+0260", "U+0263",
      "U+0269", "U+0268", "U+0199", "U+026F", "U+0272", "U+0275", "U+01A1",
      "U+01A3", "U+01A5", "U+0280", "U+01A8", "U+0283", "U+01AD", "U+0288",
      "U+01B0", "U+028A", "U+028B", "U+01B4", "U+01B6", "U+0292", "U+01B9",
      "U+01BD", "U+01C6", "U+01C6", "U+01C9", "U+01C9", "U+01CC", "U+01CC",
      "U+01CE", "U+01D0", "U+01D2", "U+01D4", "U+01D6", "U+01D8", "U+01DA",
      "U+01DC", "U+01DF", "U+01E1", "U+01E3", "U+01E5", "U+01E7", "U+01E9",
      "U+01EB", "U+01ED", "U+01EF", "U+01F3", "U+01F3", "U+01F5", "U+0195",
      "U+01BF", "U+01F9", "U+01FB", "U+01FD", "U+01FF", "U+0201", "U+0203",
      "U+0205", "U+0207", "U+0209", "U+020B", "U+020D", "U+020F", "U+0211",
      "U+0213", "U+0215", "U+0217", "U+0219", "U+021B", "U+021D", "U+021F",
      "U+019E", "U+0223", "U+0225", "U+0227", "U+0229", "U+022B", "U+022D",
      "U+022F", "U+0231", "U+0233", "U+2C65", "U+023C", "U+019A", "U+2C66",
      "U+0242", "U+0180", "U+0289", "U+028C", "U+0247", "U+0249", "U+024B",
      "U+024D", "U+024F", "U+0371", "U+0373", "U+0377", "ϳ", "ά", "έ", "ή",
      "ί", "ό", "ύ", "ώ", "α", "β", "γ", "δ", "ε", "ζ", "η", "θ", "ι", "κ",
      "λ", "μ", "ν", "ξ", "ο", "π", "ρ", "σ", "τ", "υ", "φ", "χ", "ψ", "ω",
      "ϊ", "ϋ", "ϗ", "ϙ", "ϛ", "ϝ", "ϟ", "ϡ", "ϣ", "ϥ", "ϧ", "ϩ", "ϫ", "ϭ",
      "ϯ", "θ", "ϸ", "ϲ", "ϻ", "U+037B", "U+037C", "U+037D", "U+0450",
      "U+0451", "U+0452", "U+0453", "U+0454", "U+0455", "U+0456", "U+0457",
      "U+0458", "U+0459", "U+045A", "U+045B", "U+045C", "U+045D", "U+045E",
      "U+045F", "U+0430", "U+0431", "U+0432", "U+0433", "U+0434", "U+0435",
      "U+0436", "U+0437", "U+0438", "U+0439", "U+043A", "U+043B", "U+043C",
      "U+043D", "U+043E", "U+043F", "U+0440", "U+0441", "U+0442", "U+0443",
      "U+0444", "U+0445", "U+0446", "U+0447", "U+0448", "U+0449", "U+044A",
      "U+044B", "U+044C", "U+044D", "U+044E", "U+044F", "U+0461", "U+0463",
      "U+0465", "U+0467", "U+0469", "U+046B", "U+046D", "U+046F", "U+0471",
      "U+0473", "U+0475", "U+0477", "U+0479", "U+047B", "U+047D", "U+047F",
      "U+0481", "U+048B", "U+048D", "U+048F", "U+0491", "U+0493", "U+0495",
      "U+0497", "U+0499", "U+049B", "U+049D", "U+049F", "U+04A1", "U+04A3",
      "U+04A5", "U+04A7", "U+04A9", "U+04AB", "U+04AD", "U+04AF", "U+04B1",
      "U+04B3", "U+04B5", "U+04B7", "U+04B9", "U+04BB", "U+04BD", "U+04BF",
      "U+04CF", "U+04C2", "U+04C4", "U+04C6", "U+04C8", "U+04CA", "U+04CC",
      "U+04CE", "U+04D1", "U+04D3", "U+04D5", "U+04D7", "U+04D9", "U+04DB",
      "U+04DD", "U+04DF", "U+04E1", "U+04E3", "U+04E5", "U+04E7", "U+04E9",
      "U+04EB", "U+04ED", "U+04EF", "U+04F1", "U+04F3", "U+04F5", "U+04F7",
      "U+04F9", "U+04FB", "U+04FD", "U+04FF", "U+0501", "U+0503", "U+0505",
      "U+0507", "U+0509", "U+050B", "U+050D", "U+050F", "U+0511", "U+0513",
      "U+0515", "U+0517", "U+0519", "U+051B", "U+051D", "U+051F", "U+0521",
      "U+0523", "U+0525", "U+0527", "U+0529", "U+052B", "U+052D", "U+052F",
      "U+0561", "U+0562", "U+0563", "U+0564", "U+0565", "U+0566", "U+0567",
      "U+0568", "U+0569", "U+056A", "U+056B", "U+056C", "U+056D", "U+056E",
      "U+056F", "U+0570", "U+0571", "U+0572", "U+0573", "U+0574", "U+0575",
      "U+0576", "U+0577", "U+0578", "U+0579", "U+057A", "U+057B", "U+057C",
      "U+057D", "U+057E", "U+057F", "U+0580", "U+0581", "U+0582", "U+0583",
      "U+0584", "U+0585", "U+0586", "U+2D00", "U+2D01", "U+2D02", "U+2D03",
      "U+2D04", "U+2D05", "U+2D06", "U+2D07", "U+2D08", "U+2D09", "U+2D0A",
      "U+2D0B", "U+2D0C", "U+2D0D", "U+2D0E", "U+2D0F", "U+2D10", "U+2D11",
      "U+2D12", "U+2D13", "U+2D14", "U+2D15", "U+2D16", "U+2D17", "U+2D18",
      "U+2D19", "U+2D1A", "U+2D1B", "U+2D1C", "U+2D1D", "U+2D1E", "U+2D1F",
      "U+2D20", "U+2D21", "U+2D22", "U+2D23", "U+2D24", "U+2D25", "U+2D27",
      "U+2D2D", "U+AB70", "U+AB71", "U+AB72", "U+AB73", "U+AB74", "U+AB75",
      "U+AB76", "U+AB77", "U+AB78", "U+AB79", "U+AB7A", "U+AB7B", "U+AB7C",
      "U+AB7D", "U+AB7E", "U+AB7F", "U+AB80", "U+AB81", "U+AB82", "U+AB83",
      "U+AB84", "U+AB85", "U+AB86", "U+AB87", "U+AB88", "U+AB89", "U+AB8A",
      "U+AB8B", "U+AB8C", "U+AB8D", "U+AB8E", "U+AB8F", "U+AB90", "U+AB91",
      "U+AB92", "U+AB93", "U+AB94", "U+AB95", "U+AB96", "U+AB97", "U+AB98",
      "U+AB99", "U+AB9A", "U+AB9B", "U+AB9C", "U+AB9D", "U+AB9E", "U+AB9F",
      "U+ABA0", "U+ABA1", "U+ABA2", "U+ABA3", "U+ABA4", "U+ABA5", "U+ABA6",
      "U+ABA7", "U+ABA8", "U+ABA9", "U+ABAA", "U+ABAB", "U+ABAC", "U+ABAD",
      "U+ABAE", "U+ABAF", "U+ABB0", "U+ABB1", "U+ABB2", "U+ABB3", "U+ABB4",
      "U+ABB5", "U+ABB6", "U+ABB7", "U+ABB8", "U+ABB9", "U+ABBA", "U+ABBB",
      "U+ABBC", "U+ABBD", "U+ABBE", "U+ABBF", "U+13F8", "U+13F9", "U+13FA",
      "U+13FB", "U+13FC", "U+13FD", "U+1C8A", "U+10D0", "U+10D1", "U+10D2",
      "U+10D3", "U+10D4", "U+10D5", "U+10D6", "U+10D7", "U+10D8", "U+10D9",
      "U+10DA", "U+10DB", "U+10DC", "U+10DD", "U+10DE", "U+10DF", "U+10E0",
      "U+10E1", "U+10E2", "U+10E3", "U+10E4", "U+10E5", "U+10E6", "U+10E7",
      "U+10E8", "U+10E9", "U+10EA", "U+10EB", "U+10EC", "U+10ED", "U+10EE",
      "U+10EF", "U+10F0", "U+10F1", "U+10F2", "U+10F3", "U+10F4", "U+10F5",
      "U+10F6", "U+10F7", "U+10F8", "U+10F9", "U+10FA", "U+10FD", "U+10FE",
      "U+10FF", "U+1E01", "U+1E03", "U+1E05", "U+1E07", "U+1E09", "U+1E0B",
      "U+1E0D", "U+1E0F", "U+1E11", "U+1E13", "U+1E15", "U+1E17", "U+1E19",
      "U+1E1B", "U+1E1D", "U+1E1F", "U+1E21", "U+1E23", "U+1E25", "U+1E27",
      "U+1E29", "U+1E2B", "U+1E2D", "U+1E2F", "U+1E31", "U+1E33", "U+1E35",
      "U+1E37", "U+1E39", "U+1E3B", "U+1E3D", "U+1E3F", "U+1E41", "U+1E43",
      "U+1E45", "U+1E47", "U+1E49", "U+1E4B", "U+1E4D", "U+1E4F", "U+1E51",
      "U+1E53", "U+1E55", "U+1E57", "U+1E59", "U+1E5B", "U+1E5D", "U+1E5F",
      "U+1E61", "U+1E63", "U+1E65", "U+1E67", "U+1E69", "U+1E6B", "U+1E6D",
      "U+1E6F", "U+1E71", "U+1E73", "U+1E75", "U+1E77", "U+1E79", "U+1E7B",
      "U+1E7D", "U+1E7F", "U+1E81", "U+1E83", "U+1E85", "U+1E87", "U+1E89",
      "U+1E8B", "U+1E8D", "U+1E8F", "U+1E91", "U+1E93", "U+1E95", "ß",
      "U+1EA1", "U+1EA3", "U+1EA5", "U+1EA7", "U+1EA9", "U+1EAB", "U+1EAD",
      "U+1EAF", "U+1EB1", "U+1EB3", "U+1EB5", "U+1EB7", "U+1EB9", "U+1EBB",
      "U+1EBD", "U+1EBF", "U+1EC1", "U+1EC3", "U+1EC5", "U+1EC7", "U+1EC9",
      "U+1ECB", "U+1ECD", "U+1ECF", "U+1ED1", "U+1ED3", "U+1ED5", "U+1ED7",
      "U+1ED9", "U+1EDB", "U+1EDD", "U+1EDF", "U+1EE1", "U+1EE3", "U+1EE5",
      "U+1EE7", "U+1EE9", "U+1EEB", "U+1EED", "U+1EEF", "U+1EF1", "U+1EF3",
      "U+1EF5", "U+1EF7", "U+1EF9", "U+1EFB", "U+1EFD", "U+1EFF", "U+1F00",
      "U+1F01", "U+1F02", "U+1F03", "U+1F04", "U+1F05", "U+1F06", "U+1F07",
      "U+1F10", "U+1F11", "U+1F12", "U+1F13", "U+1F14", "U+1F15", "U+1F20",
      "U+1F21", "U+1F22", "U+1F23", "U+1F24", "U+1F25", "U+1F26", "U+1F27",
      "U+1F30", "U+1F31", "U+1F32", "U+1F33", "U+1F34", "U+1F35", "U+1F36",
      "U+1F37", "U+1F40", "U+1F41", "U+1F42", "U+1F43", "U+1F44", "U+1F45",
      "U+1F51", "U+1F53", "U+1F55", "U+1F57", "U+1F60", "U+1F61", "U+1F62",
      "U+1F63", "U+1F64", "U+1F65", "U+1F66", "U+1F67", "U+1F80", "U+1F81",
      "U+1F82", "U+1F83", "U+1F84", "U+1F85", "U+1F86", "U+1F87", "U+1F90",
      "U+1F91", "U+1F92", "U+1F93", "U+1F94", "U+1F95", "U+1F96", "U+1F97",
      "U+1FA0", "U+1FA1", "U+1FA2", "U+1FA3", "U+1FA4", "U+1FA5", "U+1FA6",
      "U+1FA7", "U+1FB0", "U+1FB1", "U+1F70", "U+1F71", "U+1FB3", "U+1F72",
      "U+1F73", "U+1F74", "U+1F75", "U+1FC3", "U+1FD0", "U+1FD1", "U+1F76",
      "U+1F77", "U+1FE0", "U+1FE1", "U+1F7A", "U+1F7B", "U+1FE5", "U+1F78",
      "U+1F79", "U+1F7C", "U+1F7D", "U+1FF3", "ω", "k", "å", "U+214E",
      "U+2170", "U+2171", "U+2172", "U+2173", "U+2174", "U+2175", "U+2176",
      "U+2177", "U+2178", "U+2179", "U+217A", "U+217B", "U+217C", "U+217D",
      "U+217E", "U+217F", "U+2184", "U+24D0", "U+24D1", "U+24D2", "U+24D3",
      "U+24D4", "U+24D5", "U+24D6", "U+24D7", "U+24D8", "U+24D9", "U+24DA",
      "U+24DB", "U+24DC", "U+24DD", "U+24DE", "U+24DF", "U+24E0", "U+24E1",
      "U+24E2", "U+24E3", "U+24E4", "U+24E5", "U+24E6", "U+24E7", "U+24E8",
      "U+24E9", "U+2C30", "U+2C31", "U+2C32", "U+2C33", "U+2C34", "U+2C35",
      "U+2C36", "U+2C37", "U+2C38", "U+2C39", "U+2C3A", "U+2C3B", "U+2C3C",
      "U+2C3D", "U+2C3E", "U+2C3F", "U+2C40", "U+2C41", "U+2C42", "U+2C43",
      "U+2C44", "U+2C45", "U+2C46", "U+2C47", "U+2C48", "U+2C49", "U+2C4A",
      "U+2C4B", "U+2C4C", "U+2C4D", "U+2C4E", "U+2C4F", "U+2C50", "U+2C51",
      "U+2C52", "U+2C53", "U+2C54", "U+2C55", "U+2C56", "U+2C57", "U+2C58",
      "U+2C59", "U+2C5A", "U+2C5B", "U+2C5C", "U+2C5D", "U+2C5E", "U+2C5F",
      "U+2C61", "U+026B", "U+1D7D", "U+027D", "U+2C68", "U+2C6A", "U+2C6C",
      "U+0251", "U+0271", "U+0250", "U+0252", "U+2C73", "U+2C76", "U+023F",
      "U+0240", "U+2C81", "U+2C83", "U+2C85", "U+2C87", "U+2C89", "U+2C8B",
      "U+2C8D", "U+2C8F", "U+2C91", "U+2C93", "U+2C95", "U+2C97", "U+2C99",
      "U+2C9B", "U+2C9D", "U+2C9F", "U+2CA1", "U+2CA3", "U+2CA5", "U+2CA7",
      "U+2CA9", "U+2CAB", "U+2CAD", "U+2CAF", "U+2CB1", "U+2CB3", "U+2CB5",
      "U+2CB7", "U+2CB9", "U+2CBB", "U+2CBD", "U+2CBF", "U+2CC1", "U+2CC3",
      "U+2CC5", "U+2CC7", "U+2CC9", "U+2CCB", "U+2CCD", "U+2CCF", "U+2CD1",
      "U+2CD3", "U+2CD5", "U+2CD7", "U+2CD9", "U+2CDB", "U+2CDD", "U+2CDF",
      "U+2CE1", "U+2CE3", "U+2CEC", "U+2CEE", "U+2CF3", "U+A641", "U+A643",
      "U+A645", "U+A647", "U+A649", "U+A64B", "U+A64D", "U+A64F", "U+A651",
      "U+A653", "U+A655", "U+A657", "U+A659", "U+A65B", "U+A65D", "U+A65F",
      "U+A661", "U+A663", "U+A665", "U+A667", "U+A669", "U+A66B", "U+A66D",
      "U+A681", "U+A683", "U+A685", "U+A687", "U+A689", "U+A68B", "U+A68D",
      "U+A68F", "U+A691", "U+A693", "U+A695", "U+A697", "U+A699", "U+A69B",
      "U+A723", "U+A725", "U+A727", "U+A729", "U+A72B", "U+A72D", "U+A72F",
      "U+A733", "U+A735", "U+A737", "U+A739", "U+A73B", "U+A73D", "U+A73F",
      "U+A741", "U+A743", "U+A745", "U+A747", "U+A749", "U+A74B", "U+A74D",
      "U+A74F", "U+A751", "U+A753", "U+A755", "U+A757", "U+A759", "U+A75B",
      "U+A75D", "U+A75F", "U+A761", "U+A763", "U+A765", "U+A767", "U+A769",
      "U+A76B", "U+A76D", "U+A76F", "U+A77A", "U+A77C", "U+1D79", "U+A77F",
      "U+A781", "U+A783", "U+A785", "U+A787", "U+A78C", "U+0265", "U+A791",
      "U+A793", "U+A797", "U+A799", "U+A79B", "U+A79D", "U+A79F", "U+A7A1",
      "U+A7A3", "U+A7A5", "U+A7A7", "U+A7A9", "U+0266", "U+025C", "U+0261",
      "U+026C", "U+026A", "U+029E", "U+0287", "U+029D", "U+AB53", "U+A7B5",
      "U+A7B7", "U+A7B9", "U+A7BB", "U+A7BD", "U+A7BF", "U+A7C1", "U+A7C3",
      "U+A794", "U+0282", "U+1D8E", "U+A7C8", "U+A7CA", "U+0264", "U+A7CD",
      "U+A7CF", "U+A7D1", "U+A7D3", "U+A7D5", "U+A7D7", "U+A7D9", "U+A7DB",
      "U+019B", "U+A7F6", "U+FF41", "U+FF42", "U+FF43", "U+FF44", "U+FF45",
      "U+FF46", "U+FF47", "U+FF48", "U+FF49", "U+FF4A", "U+FF4B", "U+FF4C",
      "U+FF4D", "U+FF4E", "U+FF4F", "U+FF50", "U+FF51", "U+FF52", "U+FF53",
      "U+FF54", "U+FF55", "U+FF56", "U+FF57", "U+FF58", "U+FF59", "U+FF5A">>

\* the capital letters of two code units: the high surrogate, the low
\* surrogates of the capitals and the low surrogates of their lower case
AstralCapitals ==
    <<
    << "U+D801",
       <<"U+DC00", "U+DC01", "U+DC02", "U+DC03", "U+DC04", "U+DC05", "U+DC06",
         "U+DC07", "U+DC08", "U+DC09", "U+DC0A", "U+DC0B", "U+DC0C", "U+DC0D",
         "U+DC0E", "U+DC0F", "U+DC10", "U+DC11", "U+DC12", "U+DC13", "U+DC14",
         "U+DC15", "U+DC16", "U+DC17", "U+DC18", "U+DC19", "U+DC1A", "U+DC1B",
         "U+DC1C", "U+DC1D", "U+DC1E", "U+DC1F", "U+DC20", "U+DC21", "U+DC22",
         "U+DC23", "U+DC24", "U+DC25", "U+DC26", "U+DC27", "U+DCB0", "U+DCB1",
         "U+DCB2", "U+DCB3", "U+DCB4", "U+DCB5", "U+DCB6", "U+DCB7", "U+DCB8",
         "U+DCB9", "U+DCBA", "U+DCBB", "U+DCBC", "U+DCBD", "U+DCBE", "U+DCBF",
         "U+DCC0", "U+DCC1", "U+DCC2", "U+DCC3", "U+DCC4", "U+DCC5", "U+DCC6",
         "U+DCC7", "U+DCC8", "U+DCC9", "U+DCCA", "U+DCCB", "U+DCCC", "U+DCCD",
         "U+DCCE", "U+DCCF", "U+DCD0", "U+DCD1", "U+DCD2", "U+DCD3", "U+DD70",
         "U+DD71", "U+DD72", "U+DD73", "U+DD74", "U+DD75", "U+DD76", "U+DD77",
         "U+DD78", "U+DD79", "U+DD7A", "U+DD7C", "U+DD7D", "U+DD7E", "U+DD7F",
         "U+DD80", "U+DD81", "U+DD82", "U+DD83", "U+DD84", "U+DD85", "U+DD86",
         "U+DD87", "U+DD88", "U+DD89", "U+DD8A", "U+DD8C", "U+DD8D", "U+DD8E",
         "U+DD8F", "U+DD90", "U+DD91", "U+DD92", "U+DD94", "U+DD95">>,
       <<"U+DC28", "U+DC29", "U+DC2A", "U+DC2B", "U+DC2C", "U+DC2D", "U+DC2E",
         "U+DC2F", "U+DC30", "U+DC31", "U+DC32", "U+DC33", "U+DC34", "U+DC35",
         "U+DC36", "U+DC37", "U+DC38", "U+DC39", "U+DC3A", "U+DC3B", "U+DC3C",
         "U+DC3D", "U+DC3E", "U+DC3F", "U+DC40", "U+DC41", "U+DC42", "U+DC43",
         "U+DC44", "U+DC45", "U+DC46", "U+DC47", "U+DC48", "U+DC49", "U+DC4A",
         "U+DC4B", "U+DC4C", "U+DC4D", "U+DC4E", "U+DC4F", "U+DCD8", "U+DCD9",
         "U+DCDA", "U+DCDB", "U+DCDC", "U+DCDD", "U+DCDE", "U+DCDF", "U+DCE0",
         "U+DCE1", "U+DCE2", "U+DCE3", "U+DCE4", "U+DCE5", "U+DCE6", "U+DCE7",
         "U+DCE8", "U+DCE9", "U+DCEA", "U+DCEB", "U+DCEC", "U+DCED", "U+DCEE",
         "U+DCEF", "U+DCF0", "U+DCF1", "U+DCF2", "U+DCF3", "U+DCF4", "U+DCF5",
         "U+DCF6", "U+DCF7", "U+DCF8", "U+DCF9", "U+DCFA", "U+DCFB", "U+DD97",
         "U+DD98", "U+DD99", "U+DD9A", "U+DD9B", "U+DD9C", "U+DD9D", "U+DD9E",
         "U+DD9F", "U+DDA0", "U+DDA1", "U+DDA3", "U+DDA4", "U+DDA5", "U+DDA6",
         "U+DDA7", "U+DDA8", "U+DDA9", "U+DDAA", "U+DDAB", "U+DDAC", "U+DDAD",
         "U+DDAE", "U+DDAF", "U+DDB0", "U+DDB1", "U+DDB3", "U+DDB4", "U+DDB5",
         "U+DDB6", "U+DDB7", "U+DDB8", "U+DDB9", "U+DDBB", "U+DDBC">> >>,
    << "U+D803",
       <<"U+DC80", "U+DC81", "U+DC82", "U+DC83", "U+DC84", "U+DC85", "U+DC86",
         "U+DC87", "U+DC88", "U+DC89", "U+DC8A", "U+DC8B", "U+DC8C", "U+DC8D",
         "U+DC8E", "U+DC8F", "U+DC90", "U+DC91", "U+DC92", "U+DC93", "U+DC94",
         "U+DC95", "U+DC96", "U+DC97", "U+DC98", "U+DC99", "U+DC9A", "U+DC9B",
         "U+DC9C", "U+DC9D", "U+DC9E", "U+DC9F", "U+DCA0", "U+DCA1", "U+DCA2",
         "U+DCA3", "U+DCA4", "U+DCA5", "U+DCA6", "U+DCA7", "U+DCA8", "U+DCA9",
         "U+DCAA", "U+DCAB", "U+DCAC", "U+DCAD", "U+DCAE", "U+DCAF", "U+DCB0",
         "U+DCB1", "U+DCB2", "U+DD50", "U+DD51", "U+DD52", "U+DD53", "U+DD54",
         "U+DD55", "U+DD56", "U+DD57", "U+DD58", "U+DD59", "U+DD5A", "U+DD5B",
         "U+DD5C", "U+DD5D", "U+DD5E", "U+DD5F", "U+DD60", "U+DD61", "U+DD62",
         "U+DD63", "U+DD64", "U+DD65">>,
       <<"U+DCC0", "U+DCC1", "U+DCC2", "U+DCC3", "U+DCC4", "U+DCC5", "U+DCC6",
         "U+DCC7", "U+DCC8", "U+DCC9", "U+DCCA", "U+DCCB", "U+DCCC", "U+DCCD",
         "U+DCCE", "U+DCCF", "U+DCD0", "U+DCD1", "U+DCD2", "U+DCD3", "U+DCD4",
         "U+DCD5", "U+DCD6", "U+DCD7", "U+DCD8", "U+DCD9", "U+DCDA", "U+DCDB",
         "U+DCDC", "U+DCDD", "U+DCDE", "U+DCDF", "U+DCE0", "U+DCE1", "U+DCE2",
         "U+DCE3", "U+DCE4", "U+DCE5", "U+DCE6", "U+DCE7", "U+DCE8", "U+DCE9",
         "U+DCEA", "U+DCEB", "U+DCEC", "U+DCED", "U+DCEE", "U+DCEF", "U+DCF0",
         "U+DCF1", "U+DCF2", "U+DD70", "U+DD71", "U+DD72", "U+DD73", "U+DD74",
         "U+DD75", "U+DD76", "U+DD77", "U+DD78", "U+DD79", "U+DD7A", "U+DD7B",
         "U+DD7C", "U+DD7D", "U+DD7E", "U+DD7F", "U+DD80", "U+DD81", "U+DD82",
         "U+DD83", "U+DD84", "U+DD85">> >>,
    << "U+D806",
       <<"U+DCA0", "U+DCA1", "U+DCA2", "U+DCA3", "U+DCA4", "U+DCA5", "U+DCA6",
         "U+DCA7", "U+DCA8", "U+DCA9", "U+DCAA", "U+DCAB", "U+DCAC", "U+DCAD",
         "U+DCAE", "U+DCAF", "U+DCB0", "U+DCB1", "U+DCB2", "U+DCB3", "U+DCB4",
         "U+DCB5", "U+DCB6", "U+DCB7", "U+DCB8", "U+DCB9", "U+DCBA", "U+DCBB",
         "U+DCBC", "U+DCBD", "U+DCBE", "U+DCBF">>,
       <<"U+DCC0", "U+DCC1", "U+DCC2", "U+DCC3", "U+DCC4", "U+DCC5", "U+DCC6",
         "U+DCC7", "U+DCC8", "U+DCC9", "U+DCCA", "U+DCCB", "U+DCCC", "U+DCCD",
         "U+DCCE", "U+DCCF", "U+DCD0", "U+DCD1", "U+DCD2", "U+DCD3", "U+DCD4",
         "U+DCD5", "U+DCD6", "U+DCD7", "U+DCD8", "U+DCD9", "U+DCDA", "U+DCDB",
         "U+DCDC", "U+DCDD", "U+DCDE", "U+DCDF">> >>,
    << "U+D81B",
       <<"U+DE40", "U+DE41", "U+DE42", "U+DE43", "U+DE44", "U+DE45", "U+DE46",
         "U+DE47", "U+DE48", "U+DE49", "U+DE4A", "U+DE4B", "U+DE4C", "U+DE4D",
         "U+DE4E", "U+DE4F", "U+DE50", "U+DE51", "U+DE52", "U+DE53", "U+DE54",
         "U+DE55", "U+DE56", "U+DE57", "U+DE58", "U+DE59", "U+DE5A", "U+DE5B",
         "U+DE5C", "U+DE5D", "U+DE5E", "U+DE5F", "U+DEA0", "U+DEA1", "U+DEA2",
         "U+DEA3", "U+DEA4", "U+DEA5", "U+DEA6", "U+DEA7", "U+DEA8", "U+DEA9",
         "U+DEAA", "U+DEAB", "U+DEAC", "U+DEAD", "U+DEAE", "U+DEAF", "U+DEB0",
         "U+DEB1", "U+DEB2", "U+DEB3", "U+DEB4", "U+DEB5", "U+DEB6", "U+DEB7",
         "U+DEB8">>,
       <<"U+DE60", "U+DE61", "U+DE62", "U+DE63", "U+DE64", "U+DE65", "U+DE66",
         "U+DE67", "U+DE68", "U+DE69", "U+DE6A", "U+DE6B", "U+DE6C", "U+DE6D",
         "U+DE6E", "U+DE6F", "U+DE70", "U+DE71", "U+DE72", "U+DE73", "U+DE74",
         "U+DE75", "U+DE76", "U+DE77", "U+DE78", "U+DE79", "U+DE7A", "U+DE7B",
         "U+DE7C", "U+DE7D", "U+DE7E", "U+DE7F", "U+DEBB", "U+DEBC", "U+DEBD",
         "U+DEBE", "U+DEBF", "U+DEC0", "U+DEC1", "U+DEC2", "U+DEC3", "U+DEC4",
         "U+DEC5", "U+DEC6", "U+DEC7", "U+DEC8", "U+DEC9", "U+DECA", "U+DECB",
         "U+DECC", "U+DECD", "U+DECE", "U+DECF", "U+DED0", "U+DED1", "U+DED2",
         "U+DED3">> >>,
    << "U+D83A",
       <<"U+DD00", "U+DD01", "U+DD02", "U+DD03", "U+DD04", "U+DD05", "U+DD06",
         "U+DD07", "U+DD08", "U+DD09", "U+DD0A", "U+DD0B", "U+DD0C", "U+DD0D",
         "U+DD0E", "U+DD0F", "U+DD10", "U+DD11", "U+DD12", "U+DD13", "U+DD14",
         "U+DD15", "U+DD16", "U+DD17", "U+DD18", "U+DD19", "U+DD1A", "U+DD1B",
         "U+DD1C", "U+DD1D", "U+DD1E", "U+DD1F", "U+DD20", "U+DD21">>,
       <<"U+DD22", "U+DD23", "U+DD24", "U+DD25", "U+DD26", "U+DD27", "U+DD28",
         "U+DD29", "U+DD2A", "U+DD2B", "U+DD2C", "U+DD2D", "U+DD2E", "U+DD2F",
         "U+DD30", "U+DD31", "U+DD32", "U+DD33", "U+DD34", "U+DD35", "U+DD36",
         "U+DD37", "U+DD38", "U+DD39", "U+DD3A", "U+DD3B", "U+DD3C", "U+DD3D",
         "U+DD3E", "U+DD3F", "U+DD40", "U+DD41", "U+DD42", "U+DD43">> >>
    >>

\* Unicode Cased, without the characters that are also Case_Ignorable:
\* single code units beyond the ASCII letters, and surrogate pairs
CasedBeyondAscii ==
    {"ª", "µ", "º", "À", "Á", "Â", "Ã", "Ä", "Å", "Æ", "Ç", "È", "É", "Ê",
     "Ë", "Ì", "Í", "Î", "Ï", "Ð", "Ñ", "Ò", "Ó", "Ô", "Õ", "Ö", "Ø", "Ù",
     "Ú", "Û", "Ü", "Ý", "Þ", "ß", "à", "á", "â", "ã", "ä", "å", "æ", "ç",
     "è", "é", "ê", "ë", "ì", "í", "î", "ï", "ð", "ñ", "ò", "ó", "ô", "õ",
     "ö", "ø", "ù", "ú", "û", "ü", "ý", "þ", "ÿ", "U+0100", "U+0101",
     "U+0102", "U+0103", "U+0104", "U+0105", "U+0106", "U+0107", "U+0108",
     "U+0109", "U+010A", "U+010B", "U+010C", "U+010D", "U+010E", "U+010F",
     "U+0110", "U+0111", "U+0112", "U+0113", "U+0114", "U+0115", "U+0116",
     "U+0117", "U+0118", "U+0119", "U+011A", "U+011B", "U+011C", "U+011D",
     "U+011E", "U+011F", "U+0120", "U+0121", "U+0122", "U+0123", "U+0124",
     "U+0125", "U+0126", "U+0127", "U+0128", "U+0129", "U+012A", "U+012B",
     "U+012C", "U+012D", "U+012E", "U+012F", "U+0130", "U+0131", "U+0132",
     "U+0133", "U+0134", "U+0135", "U+0136", "U+0137", "U+0138", "U+0139",
     "U+013A", "U+013B", "U+013C", "U+013D", "U+013E", "U+013F", "U+0140",
     "U+0141", "U+0142", "U+0143", "U+0144", "U+0145", "U+0146", "U+0147",
     "U+0148", "U+0149", "U+014A", "U+014B", "U+014C", "U+014D", "U+014E",
     "U+014F", "U+0150", "U+0151", "U+0152", "U+0153", "U+0154", "U+0155",
     "U+0156", "U+0157", "U+0158", "U+0159", "U+015A", "U+015B", "U+015C",
     "U+015D", "U+015E", "U+015F", "U+0160", "U+0161", "U+0162", "U+0163",
     "U+0164", "U+0165", "U+0166", "U+0167", "U+0168", "U+0169", "U+016A",
     "U+016B", "U+016C", "U+016D", "U+016E", "U+016F", "U+0170", "U+0171",
     "U+0172", "U+0173", "U+0174", "U+0175", "U+0176", "U+0177", "U+0178",
     "U+0179", "U+017A", "U+017B", "U+017C", "U+017D", "U+017E", "U+017F",
     "U+0180", "U+0181", "U+0182", "U+0183", "U+0184", "U+0185", "U+0186",
     "U+0187", "U+0188", "U+0189", "U+018A", "U+018B", "U+018C", "U+018D",
     "U+018E", "U+018F", "U+0190", "U+0191", "U+0192", "U+0193", "U+0194",
     "U+0195", "U+0196", "U+0197", "U+0198", "U+0199", "U+019A", "U+019B",
     "U+019C", "U+019D", "U+019E", "U+019F", "U+01A0", "U+01A1", "U+01A2",
     "U+01A3", "U+01A4", "U+01A5", "U+01A6", "U+01A7", "U+01A8", "U+01A9",
     "U+01AA", "U+01AB", "U+01AC", "U+01AD", "U+01AE", "U+01AF", "U+01B0",
     "U+01B1", "U+01B2", "U+01B3", "U+01B4", "U+01B5", "U+01B6", "U+01B7",
     "U+01B8", "U+01B9", "U+01BA", "U+01BC", "U+01BD", "U+01BE", "U+01BF",
     "U+01C4", "U+01C5", "U+01C6", "U+01C7", "U+01C8", "U+01C9", "U+01CA",
     "U+01CB", "U+01CC", "U+01CD", "U+01CE", "U+01CF", "U+01D0", "U+01D1",
     "U+01D2", "U+01D3", "U+01D4", "U+01D5", "U+01D6", "U+01D7", "U+01D8",
     "U+01D9", "U+01DA", "U+01DB", "U+01DC", "U+01DD", "U+01DE", "U+01DF",
     "U+01E0", "U+01E1", "U+01E2", "U+01E3", "U+01E4", "U+01E5", "U+01E6",
     "U+01E7", "U+01E8", "U+01E9", "U+01EA", "U+01EB", "U+01EC", "U+01ED",
     "U+01EE", "U+01EF", "U+01F0", "U+01F1", "U+01F2", "U+01F3", "U+01F4",
     "U+01F5", "U+01F6", "U+01F7", "U+01F8", "U+01F9", "U+01FA", "U+01FB",
     "U+01FC", "U+01FD", "U+01FE", "U+01FF", "U+0200", "U+0201", "U+0202",
     "U+0203", "U+0204", "U+0205", "U+0206", "U+0207", "U+0208", "U+0209",
     "U+020A", "U+020B", "U+020C", "U+020D", "U+020E", "U+020F", "U+0210",
     "U+0211", "U+0212", "U+0213", "U+0214", "U+0215", "U+0216", "U+0217",
     "U+0218", "U+0219", "U+021A", "U+021B", "U+021C", "U+021D", "U+021E",
     "U+021F", "U+0220", "U+0221", "U+0222", "U+0223", "U+0224", "U+0225",
     "U+0226", "U+0227", "U+0228", "U+0229", "U+022A", "U+022B", "U+022C",
     "U+022D", "U+022E", "U+022F", "U+0230", "U+0231", "U+0232", "U+0233",
     "U+0234", "U+0235", "U+0236", "U+0237", "U+0238", "U+0239", "U+023A",
     "U+023B", "U+023C", "U+023D", "U+023E", "U+023F", "U+0240", "U+0241",
     "U+0242", "U+0243", "U+0244", "U+0245", "U+0246", "U+0247", "U+0248",
     "U+0249", "U+024A", "U+024B", "U+024C", "U+024D", "U+024E", "U+024F",
     "U+0250", "U+0251", "U+0252", "U+0253", "U+0254", "U+0255", "U+0256",
     "U+0257", "U+0258", "U+0259", "U+025A", "U+025B", "U+025C", "U+025D",
     "U+025E", "U+025F", "U+0260", "U+0261", "U+0262", "U+0263", "U+0264",
     "U+0265", "U+0266", "U+0267", "U+0268", "U+0269", "U+026A", "U+026B",
     "U+026C", "U+026D", "U+026E", "U+026F", "U+0270", "U+0271", "U+0272",
     "U+0273", "U+0274", "U+0275", "U+0276", "U+0277", "U+0278", "U+0279",
     "U+027A", "U+027B", "U+027C", "U+027D", "U+027E", "U+027F", "U+0280",
     "U+0281", "U+0282", "U+0283", "U+0284", "U+0285", "U+0286", "U+0287",
     "U+0288", "U+0289", "U+028A", "U+028B", "U+028C", "U+028D", "U+028E",
     "U+028F", "U+0290", "U+0291", "U+0292", "U+0293", "U+0296", "U+0297",
     "U+0298", "U+0299", "U+029A", "U+029B", "U+029C", "U+029D", "U+029E",
     "U+029F", "U+02A0", "U+02A1", "U+02A2", "U+02A3", "U+02A4", "U+02A5",
     "U+02A6", "U+02A7", "U+02A8", "U+02A9", "U+02AA", "U+02AB", "U+02AC",
     "U+02AD", "U+02AE", "U+02AF", "U+0370", "U+0371", "U+0372", "U+0373",
     "U+0376", "U+0377", "U+037B", "U+037C", "U+037D", "U+037F", "Ά", "Έ",
     "Ή", "Ί", "Ό", "Ύ", "Ώ", "ΐ", "Α", "Β", "Γ", "Δ", "Ε", "Ζ", "Η", "Θ",
     "Ι", "Κ", "Λ", "Μ", "Ν", "Ξ", "Ο", "Π", "Ρ", "Σ", "Τ", "Υ", "Φ", "Χ",
     "Ψ", "Ω", "Ϊ", "Ϋ", "ά", "έ", "ή", "ί", "ΰ", "α", "β", "γ", "δ", "ε",
     "ζ", "η", "θ", "ι", "κ", "λ", "μ", "ν", "ξ", "ο", "π", "ρ", "ς", "σ",
     "τ", "υ", "φ", "χ", "ψ", "ω", "ϊ", "ϋ", "ό", "ύ", "ώ", "Ϗ", "ϐ", "ϑ",
     "ϒ", "ϓ", "ϔ", "ϕ", "ϖ", "ϗ", "Ϙ", "ϙ", "Ϛ", "ϛ", "Ϝ", "ϝ", "Ϟ", "ϟ",
     "Ϡ", "ϡ", "Ϣ", "ϣ", "Ϥ", "ϥ", "Ϧ", "ϧ", "Ϩ", "ϩ", "Ϫ", "ϫ", "Ϭ", "ϭ",
     "Ϯ", "ϯ", "ϰ", "ϱ", "ϲ", "ϳ", "ϴ", "ϵ", "Ϸ", "ϸ", "Ϲ", "Ϻ", "ϻ", "ϼ",
     "Ͻ", "Ͼ", "Ͽ", "U+0400", "U+0401", "U+0402", "U+0403", "U+0404",
     "U+0405", "U+0406", "U+0407", "U+0408", "U+0409", "U+040A", "U+040B",
     "U+040C", "U+040D", "U+040E", "U+040F", "U+0410", "U+0411", "U+0412",
     "U+0413", "U+0414", "U+0415", "U+0416", "U+0417", "U+0418", "U+0419",
     "U+041A", "U+041B", "U+041C", "U+041D", "U+041E", "U+041F", "U+0420",
     "U+0421", "U+0422", "U+0423", "U+0424", "U+0425", "U+0426", "U+0427",
     "U+0428", "U+0429", "U+042A", "U+042B", "U+042C", "U+042D", "U+042E",
     "U+042F", "U+0430", "U+0431", "U+0432", "U+0433", "U+0434", "U+0435",
     "U+0436", "U+0437", "U+0438", "U+0439", "U+043A", "U+043B", "U+043C",
     "U+043D", "U+043E", "U+043F", "U+0440", "U+0441", "U+0442", "U+0443",
     "U+0444", "U+0445", "U+0446", "U+0447", "U+0448", "U+0449", "U+044A",
     "U+044B", "U+044C", "U+044D", "U+044E", "U+044F", "U+0450", "U+0451",
     "U+0452", "U+0453", "U+0454", "U+0455", "U+0456", "U+0457", "U+0458",
     "U+0459", "U+045A", "U+045B", "U+045C", "U+045D", "U+045E", "U+045F",
     "U+0460", "U+0461", "U+0462", "U+0463", "U+0464", "U+0465", "U+0466",
     "U+0467", "U+0468", "U+0469", "U+046A", "U+046B", "U+046C", "U+046D",
     "U+046E", "U+046F", "U+0470", "U+0471", "U+0472", "U+0473", "U+0474",
     "U+0475", "U+0476", "U+0477", "U+0478", "U+0479", "U+047A", "U+047B",
     "U+047C", "U+047D", "U+047E", "U+047F", "U+0480", "U+0481", "U+048A",
     "U+048B", "U+048C", "U+048D", "U+048E", "U+048F", "U+0490", "U+0491",
     "U+0492", "U+0493", "U+0494", "U+0495", "U+0496", "U+0497", "U+0498",
     "U+0499", "U+049A", "U+049B", "U+049C", "U+049D", "U+049E", "U+049F",
     "U+04A0", "U+04A1", "U+04A2", "U+04A3", "U+04A4", "U+04A5", "U+04A6",
     "U+04A7", "U+04A8", "U+04A9", "U+04AA", "U+04AB", "U+04AC", "U+04AD",
     "U+04AE", "U+04AF", "U+04B0", "U+04B1", "U+04B2", "U+04B3", "U+04B4",
     "U+04B5", "U+04B6", "U+04B7", "U+04B8", "U+04B9", "U+04BA", "U+04BB",
     "U+04BC", "U+04BD", "U+04BE", "U+04BF", "U+04C0", "U+04C1", "U+04C2",
     "U+04C3", "U+04C4", "U+04C5", "U+04C6", "U+04C7", "U+04C8", "U+04C9",
     "U+04CA", "U+04CB", "U+04CC", "U+04CD", "U+04CE", "U+04CF", "U+04D0",
     "U+04D1", "U+04D2", "U+04D3", "U+04D4", "U+04D5", "U+04D6", "U+04D7",
     "U+04D8", "U+04D9", "U+04DA", "U+04DB", "U+04DC", "U+04DD", "U+04DE",
     "U+04DF", "U+04E0", "U+04E1", "U+04E2", "U+04E3", "U+04E4", "U+04E5",
     "U+04E6", "U+04E7", "U+04E8", "U+04E9", "U+04EA", "U+04EB", "U+04EC",
     "U+04ED", "U+04EE", "U+04EF", "U+04F0", "U+04F1", "U+04F2", "U+04F3",
     "U+04F4", "U+04F5", "U+04F6", "U+04F7", "U+04F8", "U+04F9", "U+04FA",
     "U+04FB", "U+04FC", "U+04FD", "U+04FE", "U+04FF", "U+0500", "U+0501",
     "U+0502", "U+0503", "U+0504", "U+0505", "U+0506", "U+0507", "U+0508",
     "U+0509", "U+050A", "U+050B", "U+050C", "U+050D", "U+050E", "U+050F",
     "U+0510", "U+0511", "U+0512", "U+0513", "U+0514", "U+0515", "U+0516",
     "U+0517", "U+0518", "U+0519", "U+051A", "U+051B", "U+051C", "U+051D",
     "U+051E", "U+051F", "U+0520", "U+0521", "U+0522", "U+0523", "U+0524",
     "U+0525", "U+0526", "U+0527", "U+0528", "U+0529", "U+052A", "U+052B",
     "U+052C", "U+052D", "U+052E", "U+052F", "U+0531", "U+0532", "U+0533",
     "U+0534", "U+0535", "U+0536", "U+0537", "U+0538", "U+0539", "U+053A",
     "U+053B", "U+053C", "U+053D", "U+053E", "U+053F", "U+0540", "U+0541",
     "U+0542", "U+0543", "U+0544", "U+0545", "U+0546", "U+0547", "U+0548",
     "U+0549", "U+054A", "U+054B", "U+054C", "U+054D", "U+054E", "U+054F",
     "U+0550", "U+0551", "U+0552", "U+0553", "U+0554", "U+0555", "U+0556",
     "U+0560", "U+0561", "U+0562", "U+0563", "U+0564", "U+0565", "U+0566",
     "U+0567", "U+0568", "U+0569", "U+056A", "U+056B", "U+056C", "U+056D",
     "U+056E", "U+056F", "U+0570", "U+0571", "U+0572", "U+0573", "U+0574",
     "U+0575", "U+0576", "U+0577", "U+0578", "U+0579", "U+057A", "U+057B",
     "U+057C", "U+057D", "U+057E", "U+057F", "U+0580", "U+0581", "U+0582",
     "U+0583", "U+0584", "U+0585", "U+0586", "U+0587", "U+0588", "U+10A0",
     "U+10A1", "U+10A2", "U+10A3", "U+10A4", "U+10A5", "U+10A6", "U+10A7",
     "U+10A8", "U+10A9", "U+10AA", "U+10AB", "U+10AC", "U+10AD", "U+10AE",
     "U+10AF", "U+10B0", "U+10B1", "U+10B2", "U+10B3", "U+10B4", "U+10B5",
     "U+10B6", "U+10B7", "U+10B8", "U+10B9", "U+10BA", "U+10BB", "U+10BC",
     "U+10BD", "U+10BE", "U+10BF", "U+10C0", "U+10C1", "U+10C2", "U+10C3",
     "U+10C4", "U+10C5", "U+10C7", "U+10CD", "U+10D0", "U+10D1", "U+10D2",
     "U+10D3", "U+10D4", "U+10D5", "U+10D6", "U+10D7", "U+10D8", "U+10D9",
     "U+10DA", "U+10DB", "U+10DC", "U+10DD", "U+10DE", "U+10DF", "U+10E0",
     "U+10E1", "U+10E2", "U+10E3", "U+10E4", "U+10E5", "U+10E6", "U+10E7",
     "U+10E8", "U+10E9", "U+10EA", "U+10EB", "U+10EC", "U+10ED", "U+10EE",
     "U+10EF", "U+10F0", "U+10F1", "U+10F2", "U+10F3", "U+10F4", "U+10F5",
     "U+10F6", "U+10F7", "U+10F8", "U+10F9", "U+10FA", "U+10FD", "U+10FE",
     "U+10FF", "U+13A0", "U+13A1", "U+13A2", "U+13A3", "U+13A4", "U+13A5",
     "U+13A6", "U+13A7", "U+13A8", "U+13A9", "U+13AA", "U+13AB", "U+13AC",
     "U+13AD", "U+13AE", "U+13AF", "U+13B0", "U+13B1", "U+13B2", "U+13B3",
     "U+13B4", "U+13B5", "U+13B6", "U+13B7", "U+13B8", "U+13B9", "U+13BA",
     "U+13BB", "U+13BC", "U+13BD", "U+13BE", "U+13BF", "U+13C0", "U+13C1",
     "U+13C2", "U+13C3", "U+13C4", "U+13C5", "U+13C6", "U+13C7", "U+13C8",
     "U+13C9", "U+13CA", "U+13CB", "U+13CC", "U+13CD", "U+13CE", "U+13CF",
     "U+13D0", "U+13D1", "U+13D2", "U+13D3", "U+13D4", "U+13D5", "U+13D6",
     "U+13D7", "U+13D8", "U+13D9", "U+13DA", "U+13DB", "U+13DC", "U+13DD",
     "U+13DE", "U+13DF", "U+13E0", "U+13E1", "U+13E2", "U+13E3", "U+13E4",
     "U+13E5", "U+13E6", "U+13E7", "U+13E8", "U+13E9", "U+13EA", "U+13EB",
     "U+13EC", "U+13ED", "U+13EE", "U+13EF", "U+13F0", "U+13F1", "U+13F2",
     "U+13F3", "U+13F4", "U+13F5", "U+13F8", "U+13F9", "U+13FA", "U+13FB",
     "U+13FC", "U+13FD", "U+1C80", "U+1C81", "U+1C82", "U+1C83", "U+1C84",
     "U+1C85", "U+1C86", "U+1C87", "U+1C88", "U+1C89", "U+1C8A", "U+1C90",
     "U+1C91", "U+1C92", "U+1C93", "U+1C94", "U+1C95", "U+1C96", "U+1C97",
     "U+1C98", "U+1C99", "U+1C9A", "U+1C9B", "U+1C9C", "U+1C9D", "U+1C9E",
     "U+1C9F", "U+1CA0", "U+1CA1", "U+1CA2", "U+1CA3", "U+1CA4", "U+1CA5",
     "U+1CA6", "U+1CA7", "U+1CA8", "U+1CA9", "U+1CAA", "U+1CAB", "U+1CAC",
     "U+1CAD", "U+1CAE", "U+1CAF", "U+1CB0", "U+1CB1", "U+1CB2", "U+1CB3",
     "U+1CB4", "U+1CB5", "U+1CB6", "U+1CB7", "U+1CB8", "U+1CB9", "U+1CBA",
     "U+1CBD", "U+1CBE", "U+1CBF", "U+1D00", "U+1D01", "U+1D02", "U+1D03",
     "U+1D04", "U+1D05", "U+1D06", "U+1D07", "U+1D08", "U+1D09", "U+1D0A",
     "U+1D0B", "U+1D0C", "U+1D0D", "U+1D0E", "U+1D0F", "U+1D10", "U+1D11",
     "U+1D12", "U+1D13", "U+1D14", "U+1D15", "U+1D16", "U+1D17", "U+1D18",
     "U+1D19", "U+1D1A", "U+1D1B", "U+1D1C", "U+1D1D", "U+1D1E", "U+1D1F",
     "U+1D20", "U+1D21", "U+1D22", "U+1D23", "U+1D24", "U+1D25", "U+1D26",
     "U+1D27", "U+1D28", "U+1D29", "U+1D2A", "U+1D2B", "U+1D6B", "U+1D6C",
     "U+1D6D", "U+1D6E", "U+1D6F", "U+1D70", "U+1D71", "U+1D72", "U+1D73",
     "U+1D74", "U+1D75", "U+1D76", "U+1D77", "U+1D79", "U+1D7A", "U+1D7B",
     "U+1D7C", "U+1D7D", "U+1D7E", "U+1D7F", "U+1D80", "U+1D81", "U+1D82",
     "U+1D83", "U+1D84", "U+1D85", "U+1D86", "U+1D87", "U+1D88", "U+1D89",
     "U+1D8A", "U+1D8B", "U+1D8C", "U+1D8D", "U+1D8E", "U+1D8F", "U+1D90",
     "U+1D91", "U+1D92", "U+1D93", "U+1D94", "U+1D95", "U+1D96", "U+1D97",
     "U+1D98", "U+1D99", "U+1D9A", "U+1E00", "U+1E01", "U+1E02", "U+1E03",
     "U+1E04", "U+1E05", "U+1E06", "U+1E07", "U+1E08", "U+1E09", "U+1E0A",
     "U+1E0B", "U+1E0C", "U+1E0D", "U+1E0E", "U+1E0F", "U+1E10", "U+1E11",
     "U+1E12", "U+1E13", "U+1E14", "U+1E15", "U+1E16", "U+1E17", "U+1E18",
     "U+1E19", "U+1E1A", "U+1E1B", "U+1E1C", "U+1E1D", "U+1E1E", "U+1E1F",
     "U+1E20", "U+1E21", "U+1E22", "U+1E23", "U+1E24", "U+1E25", "U+1E26",
     "U+1E27", "U+1E28", "U+1E29", "U+1E2A", "U+1E2B", "U+1E2C", "U+1E2D",
     "U+1E2E", "U+1E2F", "U+1E30", "U+1E31", "U+1E32", "U+1E33", "U+1E34",
     "U+1E35", "U+1E36", "U+1E37", "U+1E38", "U+1E39", "U+1E3A", "U+1E3B",
     "U+1E3C", "U+1E3D", "U+1E3E", "U+1E3F", "U+1E40", "U+1E41", "U+1E42",
     "U+1E43", "U+1E44", "U+1E45", "U+1E46", "U+1E47", "U+1E48", "U+1E49",
     "U+1E4A", "U+1E4B", "U+1E4C", "U+1E4D", "U+1E4E", "U+1E4F", "U+1E50",
     "U+1E51", "U+1E52", "U+1E53", "U+1E54", "U+1E55", "U+1E56", "U+1E57",
     "U+1E58", "U+1E59", "U+1E5A", "U+1E5B", "U+1E5C", "U+1E5D", "U+1E5E",
     "U+1E5F", "U+1E60", "U+1E61", "U+1E62", "U+1E63", "U+1E64", "U+1E65",
     "U+1E66", "U+1E67", "U+1E68", "U+1E69", "U+1E6A", "U+1E6B", "U+1E6C",
     "U+1E6D", "U+1E6E", "U+1E6F", "U+1E70", "U+1E71", "U+1E72", "U+1E73",
     "U+1E74", "U+1E75", "U+1E76", "U+1E77", "U+1E78", "U+1E79", "U+1E7A",
     "U+1E7B", "U+1E7C", "U+1E7D", "U+1E7E", "U+1E7F", "U+1E80", "U+1E81",
     "U+1E82", "U+1E83", "U+1E84", "U+1E85", "U+1E86", "U+1E87", "U+1E88",
     "U+1E89", "U+1E8A", "U+1E8B", "U+1E8C", "U+1E8D", "U+1E8E", "U+1E8F",
     "U+1E90", "U+1E91", "U+1E92", "U+1E93", "U+1E94", "U+1E95", "U+1E96",
     "U+1E97", "U+1E98", "U+1E99", "U+1E9A", "U+1E9B", "U+1E9C", "U+1E9D",
     "U+1E9E", "U+1E9F", "U+1EA0", "U+1EA1", "U+1EA2", "U+1EA3", "U+1EA4",
     "U+1EA5", "U+1EA6", "U+1EA7", "U+1EA8", "U+1EA9", "U+1EAA", "U+1EAB",
     "U+1EAC", "U+1EAD", "U+1EAE", "U+1EAF", "U+1EB0", "U+1EB1", "U+1EB2",
     "U+1EB3", "U+1EB4", "U+1EB5", "U+1EB6", "U+1EB7", "U+1EB8", "U+1EB9",
     "U+1EBA", "U+1EBB", "U+1EBC", "U+1EBD", "U+1EBE", "U+1EBF", "U+1EC0",
     "U+1EC1", "U+1EC2", "U+1EC3", "U+1EC4", "U+1EC5", "U+1EC6", "U+1EC7",
     "U+1EC8", "U+1EC9", "U+1ECA", "U+1ECB", "U+1ECC", "U+1ECD", "U+1ECE",
     "U+1ECF", "U+1ED0", "U+1ED1", "U+1ED2", "U+1ED3", "U+1ED4", "U+1ED5",
     "U+1ED6", "U+1ED7", "U+1ED8", "U+1ED9", "U+1EDA", "U+1EDB", "U+1EDC",
     "U+1EDD", "U+1EDE", "U+1EDF", "U+1EE0", "U+1EE1", "U+1EE2", "U+1EE3",
     "U+1EE4", "U+1EE5", "U+1EE6", "U+1EE7", "U+1EE8", "U+1EE9", "U+1EEA",
     "U+1EEB", "U+1EEC", "U+1EED", "U+1EEE", "U+1EEF", "U+1EF0", "U+1EF1",
     "U+1EF2", "U+1EF3", "U+1EF4", "U+1EF5", "U+1EF6", "U+1EF7", "U+1EF8",
     "U+1EF9", "U+1EFA", "U+1EFB", "U+1EFC", "U+1EFD", "U+1EFE", "U+1EFF",
     "U+1F00", "U+1F01", "U+1F02", "U+1F03", "U+1F04", "U+1F05", "U+1F06",
     "U+1F07", "U+1F08", "U+1F09", "U+1F0A", "U+1F0B", "U+1F0C", "U+1F0D",
     "U+1F0E", "U+1F0F", "U+1F10", "U+1F11", "U+1F12", "U+1F13", "U+1F14",
     "U+1F15", "U+1F18", "U+1F19", "U+1F1A", "U+1F1B", "U+1F1C", "U+1F1D",
     "U+1F20", "U+1F21", "U+1F22", "U+1F23", "U+1F24", "U+1F25", "U+1F26",
     "U+1F27", "U+1F28", "U+1F29", "U+1F2A", "U+1F2B", "U+1F2C", "U+1F2D",
     "U+1F2E", "U+1F2F", "U+1F30", "U+1F31", "U+1F32", "U+1F33", "U+1F34",
     "U+1F35", "U+1F36", "U+1F37", "U+1F38", "U+1F39", "U+1F3A", "U+1F3B",
     "U+1F3C", "U+1F3D", "U+1F3E", "U+1F3F", "U+1F40", "U+1F41", "U+1F42",
     "U+1F43", "U+1F44", "U+1F45", "U+1F48", "U+1F49", "U+1F4A", "U+1F4B",
     "U+1F4C", "U+1F4D", "U+1F50", "U+1F51", "U+1F52", "U+1F53", "U+1F54",
     "U+1F55", "U+1F56", "U+1F57", "U+1F59", "U+1F5B", "U+1F5D", "U+1F5F",
     "U+1F60", "U+1F61", "U+1F62", "U+1F63", "U+1F64", "U+1F65", "U+1F66",
     "U+1F67", "U+1F68", "U+1F69", "U+1F6A", "U+1F6B", "U+1F6C", "U+1F6D",
     "U+1F6E", "U+1F6F", "U+1F70", "U+1F71", "U+1F72", "U+1F73", "U+1F74",
     "U+1F75", "U+1F76", "U+1F77", "U+1F78", "U+1F79", "U+1F7A", "U+1F7B",
     "U+1F7C", "U+1F7D", "U+1F80", "U+1F81", "U+1F82", "U+1F83", "U+1F84",
     "U+1F85", "U+1F86", "U+1F87", "U+1F88", "U+1F89", "U+1F8A", "U+1F8B",
     "U+1F8C", "U+1F8D", "U+1F8E", "U+1F8F", "U+1F90", "U+1F91", "U+1F92",
     "U+1F93", "U+1F94", "U+1F95", "U+1F96", "U+1F97", "U+1F98", "U+1F99",
     "U+1F9A", "U+1F9B", "U+1F9C", "U+1F9D", "U+1F9E", "U+1F9F", "U+1FA0",
     "U+1FA1", "U+1FA2", "U+1FA3", "U+1FA4", "U+1FA5", "U+1FA6", "U+1FA7",
     "U+1FA8", "U+1FA9", "U+1FAA", "U+1FAB", "U+1FAC", "U+1FAD", "U+1FAE",
     "U+1FAF", "U+1FB0", "U+1FB1", "U+1FB2", "U+1FB3", "U+1FB4", "U+1FB6",
     "U+1FB7", "U+1FB8", "U+1FB9", "U+1FBA", "U+1FBB", "U+1FBC", "U+1FBE",
     "U+1FC2", "U+1FC3", "U+1FC4", "U+1FC6", "U+1FC7", "U+1FC8", "U+1FC9",
     "U+1FCA", "U+1FCB", "U+1FCC", "U+1FD0", "U+1FD1", "U+1FD2", "U+1FD3",
     "U+1FD6", "U+1FD7", "U+1FD8", "U+1FD9", "U+1FDA", "U+1FDB", "U+1FE0",
     "U+1FE1", "U+1FE2", "U+1FE3", "U+1FE4", "U+1FE5", "U+1FE6", "U+1FE7",
     "U+1FE8", "U+1FE9", "U+1FEA", "U+1FEB", "U+1FEC", "U+1FF2", "U+1FF3",
     "U+1FF4", "U+1FF6", "U+1FF7", "U+1FF8", "U+1FF9", "U+1FFA", "U+1FFB",
     "U+1FFC", "U+2102", "U+2107", "U+210A", "U+210B", "U+210C", "U+210D",
     "U+210E", "U+210F", "U+2110", "U+2111", "U+2112", "U+2113", "U+2115",
     "U+2119", "U+211A", "U+211B", "U+211C", "U+211D", "U+2124", "U+2126",
     "U+2128", "U+212A", "U+212B", "U+212C", "U+212D", "U+212F", "U+2130",
     "U+2131", "U+2132", "U+2133", "U+2134", "U+2139", "U+213C", "U+213D",
     "U+213E", "U+213F", "U+2145", "U+2146", "U+2147", "U+2148", "U+2149",
     "U+214E", "U+2160", "U+2161", "U+2162", "U+2163", "U+2164", "U+2165",
     "U+2166", "U+2167", "U+2168", "U+2169", "U+216A", "U+216B", "U+216C",
     "U+216D", "U+216E", "U+216F", "U+2170", "U+2171", "U+2172", "U+2173",
     "U+2174", "U+2175", "U+2176", "U+2177", "U+2178", "U+2179", "U+217A",
     "U+217B", "U+217C", "U+217D", "U+217E", "U+217F", "U+2183", "U+2184",
     "U+24B6", "U+24B7", "U+24B8", "U+24B9", "U+24BA", "U+24BB", "U+24BC",
     "U+24BD", "U+24BE", "U+24BF", "U+24C0", "U+24C1", "U+24C2", "U+24C3",
     "U+24C4", "U+24C5", "U+24C6", "U+24C7", "U+24C8", "U+24C9", "U+24CA",
     "U+24CB", "U+24CC", "U+24CD", "U+24CE", "U+24CF", "U+24D0", "U+24D1",
     "U+24D2", "U+24D3", "U+24D4", "U+24D5", "U+24D6", "U+24D7", "U+24D8",
     "U+24D9", "U+24DA", "U+24DB", "U+24DC", "U+24DD", "U+24DE", "U+24DF",
     "U+24E0", "U+24E1", "U+24E2", "U+24E3", "U+24E4", "U+24E5", "U+24E6",
     "U+24E7", "U+24E8", "U+24E9", "U+2C00", "U+2C01", "U+2C02", "U+2C03",
     "U+2C04", "U+2C05", "U+2C06", "U+2C07", "U+2C08", "U+2C09", "U+2C0A",
     "U+2C0B", "U+2C0C", "U+2C0D", "U+2C0E", "U+2C0F", "U+2C10", "U+2C11",
     "U+2C12", "U+2C13", "U+2C14", "U+2C15", "U+2C16", "U+2C17", "U+2C18",
     "U+2C19", "U+2C1A", "U+2C1B", "U+2C1C", "U+2C1D", "U+2C1E", "U+2C1F",
     "U+2C20", "U+2C21", "U+2C22", "U+2C23", "U+2C24", "U+2C25", "U+2C26",
     "U+2C27", "U+2C28", "U+2C29", "U+2C2A", "U+2C2B", "U+2C2C", "U+2C2D",
     "U+2C2E", "U+2C2F", "U+2C30", "U+2C31", "U+2C32", "U+2C33", "U+2C34",
     "U+2C35", "U+2C36", "U+2C37", "U+2C38", "U+2C39", "U+2C3A", "U+2C3B",
     "U+2C3C", "U+2C3D", "U+2C3E", "U+2C3F", "U+2C40", "U+2C41", "U+2C42",
     "U+2C43", "U+2C44", "U+2C45", "U+2C46", "U+2C47", "U+2C48", "U+2C49",
     "U+2C4A", "U+2C4B", "U+2C4C", "U+2C4D", "U+2C4E", "U+2C4F", "U+2C50",
     "U+2C51", "U+2C52", "U+2C53", "U+2C54", "U+2C55", "U+2C56", "U+2C57",
     "U+2C58", "U+2C59", "U+2C5A", "U+2C5B", "U+2C5C", "U+2C5D", "U+2C5E",
     "U+2C5F", "U+2C60", "U+2C61", "U+2C62", "U+2C63", "U+2C64", "U+2C65",
     "U+2C66", "U+2C67", "U+2C68", "U+2C69", "U+2C6A", "U+2C6B", "U+2C6C",
     "U+2C6D", "U+2C6E", "U+2C6F", "U+2C70", "U+2C71", "U+2C72", "U+2C73",
     "U+2C74", "U+2C75", "U+2C76", "U+2C77", "U+2C78", "U+2C79", "U+2C7A",
     "U+2C7B", "U+2C7E", "U+2C7F", "U+2C80", "U+2C81", "U+2C82", "U+2C83",
     "U+2C84", "U+2C85", "U+2C86", "U+2C87", "U+2C88", "U+2C89", "U+2C8A",
     "U+2C8B", "U+2C8C", "U+2C8D", "U+2C8E", "U+2C8F", "U+2C90", "U+2C91",
     "U+2C92", "U+2C93", "U+2C94", "U+2C95", "U+2C96", "U+2C97", "U+2C98",
     "U+2C99", "U+2C9A", "U+2C9B", "U+2C9C", "U+2C9D", "U+2C9E", "U+2C9F",
     "U+2CA0", "U+2CA1", "U+2CA2", "U+2CA3", "U+2CA4", "U+2CA5", "U+2CA6",
     "U+2CA7", "U+2CA8", "U+2CA9", "U+2CAA", "U+2CAB", "U+2CAC", "U+2CAD",
     "U+2CAE", "U+2CAF", "U+2CB0", "U+2CB1", "U+2CB2", "U+2CB3", "U+2CB4",
     "U+2CB5", "U+2CB6", "U+2CB7", "U+2CB8", "U+2CB9", "U+2CBA", "U+2CBB",
     "U+2CBC", "U+2CBD", "U+2CBE", "U+2CBF", "U+2CC0", "U+2CC1", "U+2CC2",
     "U+2CC3", "U+2CC4", "U+2CC5", "U+2CC6", "U+2CC7", "U+2CC8", "U+2CC9",
     "U+2CCA", "U+2CCB", "U+2CCC", "U+2CCD", "U+2CCE", "U+2CCF", "U+2CD0",
     "U+2CD1", "U+2CD2", "U+2CD3", "U+2CD4", "U+2CD5", "U+2CD6", "U+2CD7",
     "U+2CD8", "U+2CD9", "U+2CDA", "U+2CDB", "U+2CDC", "U+2CDD", "U+2CDE",
     "U+2CDF", "U+2CE0", "U+2CE1", "U+2CE2", "U+2CE3", "U+2CE4", "U+2CEB",
     "U+2CEC", "U+2CED", "U+2CEE", "U+2CF2", "U+2CF3", "U+2D00", "U+2D01",
     "U+2D02", "U+2D03", "U+2D04", "U+2D05", "U+2D06", "U+2D07", "U+2D08",
     "U+2D09", "U+2D0A", "U+2D0B", "U+2D0C", "U+2D0D", "U+2D0E", "U+2D0F",
     "U+2D10", "U+2D11", "U+2D12", "U+2D13", "U+2D14", "U+2D15", "U+2D16",
     "U+2D17", "U+2D18", "U+2D19", "U+2D1A", "U+2D1B", "U+2D1C", "U+2D1D",
     "U+2D1E", "U+2D1F", "U+2D20", "U+2D21", "U+2D22", "U+2D23", "U+2D24",
     "U+2D25", "U+2D27", "U+2D2D", "U+A640", "U+A641", "U+A642", "U+A643",
     "U+A644", "U+A645", "U+A646", "U+A647", "U+A648", "U+A649", "U+A64A",
     "U+A64B", "U+A64C", "U+A64D", "U+A64E", "U+A64F", "U+A650", "U+A651",
     "U+A652", "U+A653", "U+A654", "U+A655", "U+A656", "U+A657", "U+A658",
     "U+A659", "U+A65A", "U+A65B", "U+A65C", "U+A65D", "U+A65E", "U+A65F",
     "U+A660", "U+A661", "U+A662", "U+A663", "U+A664", "U+A665", "U+A666",
     "U+A667", "U+A668", "U+A669", "U+A66A", "U+A66B", "U+A66C", "U+A66D",
     "U+A680", "U+A681", "U+A682", "U+A683", "U+A684", "U+A685", "U+A686",
     "U+A687", "U+A688", "U+A689", "U+A68A", "U+A68B", "U+A68C", "U+A68D",
     "U+A68E", "U+A68F", "U+A690", "U+A691", "U+A692", "U+A693", "U+A694",
     "U+A695", "U+A696", "U+A697", "U+A698", "U+A699", "U+A69A", "U+A69B",
     "U+A722", "U+A723", "U+A724", "U+A725", "U+A726", "U+A727", "U+A728",
     "U+A729", "U+A72A", "U+A72B", "U+A72C", "U+A72D", "U+A72E", "U+A72F",
     "U+A730", "U+A731", "U+A732", "U+A733", "U+A734", "U+A735", "U+A736",
     "U+A737", "U+A738", "U+A739", "U+A73A", "U+A73B", "U+A73C", "U+A73D",
     "U+A73E", "U+A73F", "U+A740", "U+A741", "U+A742", "U+A743", "U+A744",
     "U+A745", "U+A746", "U+A747", "U+A748", "U+A749", "U+A74A", "U+A74B",
     "U+A74C", "U+A74D", "U+A74E", "U+A74F", "U+A750", "U+A751", "U+A752",
     "U+A753", "U+A754", "U+A755", "U+A756", "U+A757", "U+A758", "U+A759",
     "U+A75A", "U+A75B", "U+A75C", "U+A75D", "U+A75E", "U+A75F", "U+A760",
     "U+A761", "U+A762", "U+A763", "U+A764", "U+A765", "U+A766", "U+A767",
     "U+A768", "U+A769", "U+A76A", "U+A76B", "U+A76C", "U+A76D", "U+A76E",
     "U+A76F", "U+A771", "U+A772", "U+A773", "U+A774", "U+A775", "U+A776",
     "U+A777", "U+A778", "U+A779", "U+A77A", "U+A77B", "U+A77C", "U+A77D",
     "U+A77E", "U+A77F", "U+A780", "U+A781", "U+A782", "U+A783", "U+A784",
     "U+A785", "U+A786", "U+A787", "U+A78B", "U+A78C", "U+A78D", "U+A78E",
     "U+A790", "U+A791", "U+A792", "U+A793", "U+A794", "U+A795", "U+A796",
     "U+A797", "U+A798", "U+A799", "U+A79A", "U+A79B", "U+A79C", "U+A79D",
     "U+A79E", "U+A79F", "U+A7A0", "U+A7A1", "U+A7A2", "U+A7A3", "U+A7A4",
     "U+A7A5", "U+A7A6", "U+A7A7", "U+A7A8", "U+A7A9", "U+A7AA", "U+A7AB",
     "U+A7AC", "U+A7AD", "U+A7AE", "U+A7AF", "U+A7B0", "U+A7B1", "U+A7B2",
     "U+A7B3", "U+A7B4", "U+A7B5", "U+A7B6", "U+A7B7", "U+A7B8", "U+A7B9",
     "U+A7BA", "U+A7BB", "U+A7BC", "U+A7BD", "U+A7BE", "U+A7BF", "U+A7C0",
     "U+A7C1", "U+A7C2", "U+A7C3", "U+A7C4", "U+A7C5", "U+A7C6", "U+A7C7",
     "U+A7C8", "U+A7C9", "U+A7CA", "U+A7CB", "U+A7CC", "U+A7CD", "U+A7CE",
     "U+A7CF", "U+A7D0", "U+A7D1", "U+A7D2", "U+A7D3", "U+A7D4", "U+A7D5",
     "U+A7D6", "U+A7D7", "U+A7D8", "U+A7D9", "U+A7DA", "U+A7DB", "U+A7DC",
     "U+A7F5", "U+A7F6", "U+A7FA", "U+AB30", "U+AB31", "U+AB32", "U+AB33",
     "U+AB34", "U+AB35", "U+AB36", "U+AB37", "U+AB38", "U+AB39", "U+AB3A",
     "U+AB3B", "U+AB3C", "U+AB3D", "U+AB3E", "U+AB3F", "U+AB40", "U+AB41",
     "U+AB42", "U+AB43", "U+AB44", "U+AB45", "U+AB46", "U+AB47", "U+AB48",
     "U+AB49", "U+AB4A", "U+AB4B", "U+AB4C", "U+AB4D", "U+AB4E", "U+AB4F",
     "U+AB50", "U+AB51", "U+AB52", "U+AB53", "U+AB54", "U+AB55", "U+AB56",
     "U+AB57", "U+AB58", "U+AB59", "U+AB5A", "U+AB60", "U+AB61", "U+AB62",
     "U+AB63", "U+AB64", "U+AB65", "U+AB66", "U+AB67", "U+AB68", "U+AB70",
     "U+AB71", "U+AB72", "U+AB73", "U+AB74", "U+AB75", "U+AB76", "U+AB77",
     "U+AB78", "U+AB79", "U+AB7A", "U+AB7B", "U+AB7C", "U+AB7D", "U+AB7E",
     "U+AB7F", "U+AB80", "U+AB81", "U+AB82", "U+AB83", "U+AB84", "U+AB85",
     "U+AB86", "U+AB87", "U+AB88", "U+AB89", "U+AB8A", "U+AB8B", "U+AB8C",
     "U+AB8D", "U+AB8E", "U+AB8F", "U+AB90", "U+AB91", "U+AB92", "U+AB93",
     "U+AB94", "U+AB95", "U+AB96", "U+AB97", "U+AB98", "U+AB99", "U+AB9A",
     "U+AB9B", "U+AB9C", "U+AB9D", "U+AB9E", "U+AB9F", "U+ABA0", "U+ABA1",
     "U+ABA2", "U+ABA3", "U+ABA4", "U+ABA5", "U+ABA6", "U+ABA7", "U+ABA8",
     "U+ABA9", "U+ABAA", "U+ABAB", "U+ABAC", "U+ABAD", "U+ABAE", "U+ABAF",
     "U+ABB0", "U+ABB1", "U+ABB2", "U+ABB3", "U+ABB4", "U+ABB5", "U+ABB6",
     "U+ABB7", "U+ABB8", "U+ABB9", "U+ABBA", "U+ABBB", "U+ABBC", "U+ABBD",
     "U+ABBE", "U+ABBF", "U+FB00", "U+FB01", "U+FB02", "U+FB03", "U+FB04",
     "U+FB05", "U+FB06", "U+FB13", "U+FB14", "U+FB15", "U+FB16", "U+FB17",
     "U+FF21", "U+FF22", "U+FF23", "U+FF24", "U+FF25", "U+FF26", "U+FF27",
     "U+FF28", "U+FF29", "U+FF2A", "U+FF2B", "U+FF2C", "U+FF2D", "U+FF2E",
     "U+FF2F", "U+FF30", "U+FF31", "U+FF32", "U+FF33", "U+FF34", "U+FF35",
     "U+FF36", "U+FF37", "U+FF38", "U+FF39", "U+FF3A", "U+FF41", "U+FF42",
     "U+FF43", "U+FF44", "U+FF45", "U+FF46", "U+FF47", "U+FF48", "U+FF49",
     "U+FF4A", "U+FF4B", "U+FF4C", "U+FF4D", "U+FF4E", "U+FF4F", "U+FF50",
     "U+FF51", "U+FF52", "U+FF53", "U+FF54", "U+FF55", "U+FF56", "U+FF57",
     "U+FF58", "U+FF59", "U+FF5A"}

\* the cased characters of two code units
AstralCased ==
    {<<"U+D801", lo>> : lo \in
        {"U+DC00", "U+DC01", "U+DC02", "U+DC03", "U+DC04", "U+DC05", "U+DC06",
         "U+DC07", "U+DC08", "U+DC09", "U+DC0A", "U+DC0B", "U+DC0C", "U+DC0D",
         "U+DC0E", "U+DC0F", "U+DC10", "U+DC11", "U+DC12", "U+DC13", "U+DC14",
         "U+DC15", "U+DC16", "U+DC17", "U+DC18", "U+DC19", "U+DC1A", "U+DC1B",
         "U+DC1C", "U+DC1D", "U+DC1E", "U+DC1F", "U+DC20", "U+DC21", "U+DC22",
         "U+DC23", "U+DC24", "U+DC25", "U+DC26", "U+DC27", "U+DC28", "U+DC29",
         "U+DC2A", "U+DC2B", "U+DC2C", "U+DC2D", "U+DC2E", "U+DC2F", "U+DC30",
         "U+DC31", "U+DC32", "U+DC33", "U+DC34", "U+DC35", "U+DC36", "U+DC37",
         "U+DC38", "U+DC39", "U+DC3A", "U+DC3B", "U+DC3C", "U+DC3D", "U+DC3E",
         "U+DC3F", "U+DC40", "U+DC41", "U+DC42", "U+DC43", "U+DC44", "U+DC45",
         "U+DC46", "U+DC47", "U+DC48", "U+DC49", "U+DC4A", "U+DC4B", "U+DC4C",
         "U+DC4D", "U+DC4E", "U+DC4F", "U+DCB0", "U+DCB1", "U+DCB2", "U+DCB3",
         "U+DCB4", "U+DCB5", "U+DCB6", "U+DCB7", "U+DCB8", "U+DCB9", "U+DCBA",
         "U+DCBB", "U+DCBC", "U+DCBD", "U+DCBE", "U+DCBF", "U+DCC0", "U+DCC1",
         "U+DCC2", "U+DCC3", "U+DCC4", "U+DCC5", "U+DCC6", "U+DCC7", "U+DCC8",
         "U+DCC9", "U+DCCA", "U+DCCB", "U+DCCC", "U+DCCD", "U+DCCE", "U+DCCF",
         "U+DCD0", "U+DCD1", "U+DCD2", "U+DCD3", "U+DCD8", "U+DCD9", "U+DCDA",
         "U+DCDB", "U+DCDC", "U+DCDD", "U+DCDE", "U+DCDF", "U+DCE0", "U+DCE1",
         "U+DCE2", "U+DCE3", "U+DCE4", "U+DCE5", "U+DCE6", "U+DCE7", "U+DCE8",
         "U+DCE9", "U+DCEA", "U+DCEB", "U+DCEC", "U+DCED", "U+DCEE", "U+DCEF",
         "U+DCF0", "U+DCF1", "U+DCF2", "U+DCF3", "U+DCF4", "U+DCF5", "U+DCF6",
         "U+DCF7", "U+DCF8", "U+DCF9", "U+DCFA", "U+DCFB", "U+DD70", "U+DD71",
         "U+DD72", "U+DD73", "U+DD74", "U+DD75", "U+DD76", "U+DD77", "U+DD78",
         "U+DD79", "U+DD7A", "U+DD7C", "U+DD7D", "U+DD7E", "U+DD7F", "U+DD80",
         "U+DD81", "U+DD82", "U+DD83", "U+DD84", "U+DD85", "U+DD86", "U+DD87",
         "U+DD88", "U+DD89", "U+DD8A", "U+DD8C", "U+DD8D", "U+DD8E", "U+DD8F",
         "U+DD90", "U+DD91", "U+DD92", "U+DD94", "U+DD95", "U+DD97", "U+DD98",
         "U+DD99", "U+DD9A", "U+DD9B", "U+DD9C", "U+DD9D", "U+DD9E", "U+DD9F",
         "U+DDA0", "U+DDA1", "U+DDA3", "U+DDA4", "U+DDA5", "U+DDA6", "U+DDA7",
         "U+DDA8", "U+DDA9", "U+DDAA", "U+DDAB", "U+DDAC", "U+DDAD", "U+DDAE",
         "U+DDAF", "U+DDB0", "U+DDB1", "U+DDB3", "U+DDB4", "U+DDB5", "U+DDB6",
         "U+DDB7", "U+DDB8", "U+DDB9", "U+DDBB", "U+DDBC"}}
    \cup
    {<<"U+D803", lo>> : lo \in
        {"U+DC80", "U+DC81", "U+DC82", "U+DC83", "U+DC84", "U+DC85", "U+DC86",
         "U+DC87", "U+DC88", "U+DC89", "U+DC8A", "U+DC8B", "U+DC8C", "U+DC8D",
         "U+DC8E", "U+DC8F", "U+DC90", "U+DC91", "U+DC92", "U+DC93", "U+DC94",
         "U+DC95", "U+DC96", "U+DC97", "U+DC98", "U+DC99", "U+DC9A", "U+DC9B",
         "U+DC9C", "U+DC9D", "U+DC9E", "U+DC9F", "U+DCA0", "U+DCA1", "U+DCA2",
         "U+DCA3", "U+DCA4", "U+DCA5", "U+DCA6", "U+DCA7", "U+DCA8", "U+DCA9",
         "U+DCAA", "U+DCAB", "U+DCAC", "U+DCAD", "U+DCAE", "U+DCAF", "U+DCB0",
         "U+DCB1", "U+DCB2", "U+DCC0", "U+DCC1", "U+DCC2", "U+DCC3", "U+DCC4",
         "U+DCC5", "U+DCC6", "U+DCC7", "U+DCC8", "U+DCC9", "U+DCCA", "U+DCCB",
         "U+DCCC", "U+DCCD", "U+DCCE", "U+DCCF", "U+DCD0", "U+DCD1", "U+DCD2",
         "U+DCD3", "U+DCD4", "U+DCD5", "U+DCD6", "U+DCD7", "U+DCD8", "U+DCD9",
         "U+DCDA", "U+DCDB", "U+DCDC", "U+DCDD", "U+DCDE", "U+DCDF", "U+DCE0",
         "U+DCE1", "U+DCE2", "U+DCE3", "U+DCE4", "U+DCE5", "U+DCE6", "U+DCE7",
         "U+DCE8", "U+DCE9", "U+DCEA", "U+DCEB", "U+DCEC", "U+DCED", "U+DCEE",
         "U+DCEF", "U+DCF0", "U+DCF1", "U+DCF2", "U+DD50", "U+DD51", "U+DD52",
         "U+DD53", "U+DD54", "U+DD55", "U+DD56", "U+DD57", "U+DD58", "U+DD59",
         "U+DD5A", "U+DD5B", "U+DD5C", "U+DD5D", "U+DD5E", "U+DD5F", "U+DD60",
         "U+DD61", "U+DD62", "U+DD63", "U+DD64", "U+DD65", "U+DD70", "U+DD71",
         "U+DD72", "U+DD73", "U+DD74", "U+DD75", "U+DD76", "U+DD77", "U+DD78",
         "U+DD79", "U+DD7A", "U+DD7B", "U+DD7C", "U+DD7D", "U+DD7E", "U+DD7F",
         "U+DD80", "U+DD81", "U+DD82", "U+DD83", "U+DD84", "U+DD85"}}
    \cup
    {<<"U+D806", lo>> : lo \in
        {"U+DCA0", "U+DCA1", "U+DCA2", "U+DCA3", "U+DCA4", "U+DCA5", "U+DCA6",
         "U+DCA7", "U+DCA8", "U+DCA9", "U+DCAA", "U+DCAB", "U+DCAC", "U+DCAD",
         "U+DCAE", "U+DCAF", "U+DCB0", "U+DCB1", "U+DCB2", "U+DCB3", "U+DCB4",
         "U+DCB5", "U+DCB6", "U+DCB7", "U+DCB8", "U+DCB9", "U+DCBA", "U+DCBB",
         "U+DCBC", "U+DCBD", "U+DCBE", "U+DCBF", "U+DCC0", "U+DCC1", "U+DCC2",
         "U+DCC3", "U+DCC4", "U+DCC5", "U+DCC6", "U+DCC7", "U+DCC8", "U+DCC9",
         "U+DCCA", "U+DCCB", "U+DCCC", "U+DCCD", "U+DCCE", "U+DCCF", "U+DCD0",
         "U+DCD1", "U+DCD2", "U+DCD3", "U+DCD4", "U+DCD5", "U+DCD6", "U+DCD7",
         "U+DCD8", "U+DCD9", "U+DCDA", "U+DCDB", "U+DCDC", "U+DCDD", "U+DCDE",
         "U+DCDF"}}
    \cup
    {<<"U+D81B", lo>> : lo \in
        {"U+DE40", "U+DE41", "U+DE42", "U+DE43", "U+DE44", "U+DE45", "U+DE46",
         "U+DE47", "U+DE48", "U+DE49", "U+DE4A", "U+DE4B", "U+DE4C", "U+DE4D",
         "U+DE4E", "U+DE4F", "U+DE50", "U+DE51", "U+DE52", "U+DE53", "U+DE54",
         "U+DE55", "U+DE56", "U+DE57", "U+DE58", "U+DE59", "U+DE5A", "U+DE5B",
         "U+DE5C", "U+DE5D", "U+DE5E", "U+DE5F", "U+DE60", "U+DE61", "U+DE62",
         "U+DE63", "U+DE64", "U+DE65", "U+DE66", "U+DE67", "U+DE68", "U+DE69",
         "U+DE6A", "U+DE6B", "U+DE6C", "U+DE6D", "U+DE6E", "U+DE6F", "U+DE70",
         "U+DE71", "U+DE72", "U+DE73", "U+DE74", "U+DE75", "U+DE76", "U+DE77",
         "U+DE78", "U+DE79", "U+DE7A", "U+DE7B", "U+DE7C", "U+DE7D", "U+DE7E",
         "U+DE7F", "U+DEA0", "U+DEA1", "U+DEA2", "U+DEA3", "U+DEA4", "U+DEA5",
         "U+DEA6", "U+DEA7", "U+DEA8", "U+DEA9", "U+DEAA", "U+DEAB", "U+DEAC",
         "U+DEAD", "U+DEAE", "U+DEAF", "U+DEB0", "U+DEB1", "U+DEB2", "U+DEB3",
         "U+DEB4", "U+DEB5", "U+DEB6", "U+DEB7", "U+DEB8", "U+DEBB", "U+DEBC",
         "U+DEBD", "U+DEBE", "U+DEBF", "U+DEC0", "U+DEC1", "U+DEC2", "U+DEC3",
         "U+DEC4", "U+DEC5", "U+DEC6", "U+DEC7", "U+DEC8", "U+DEC9", "U+DECA",
         "U+DECB", "U+DECC", "U+DECD", "U+DECE", "U+DECF", "U+DED0", "U+DED1",
         "U+DED2", "U+DED3"}}
    \cup
    {<<"U+D835", lo>> : lo \in
        {"U+DC00", "U+DC01", "U+DC02", "U+DC03", "U+DC04", "U+DC05", "U+DC06",
         "U+DC07", "U+DC08", "U+DC09", "U+DC0A", "U+DC0B", "U+DC0C", "U+DC0D",
         "U+DC0E", "U+DC0F", "U+DC10", "U+DC11", "U+DC12", "U+DC13", "U+DC14",
         "U+DC15", "U+DC16", "U+DC17", "U+DC18", "U+DC19", "U+DC1A", "U+DC1B",
         "U+DC1C", "U+DC1D", "U+DC1E", "U+DC1F", "U+DC20", "U+DC21", "U+DC22",
         "U+DC23", "U+DC24", "U+DC25", "U+DC26", "U+DC27", "U+DC28", "U+DC29",
         "U+DC2A", "U+DC2B", "U+DC2C", "U+DC2D", "U+DC2E", "U+DC2F", "U+DC30",
         "U+DC31", "U+DC32", "U+DC33", "U+DC34", "U+DC35", "U+DC36", "U+DC37",
         "U+DC38", "U+DC39", "U+DC3A", "U+DC3B", "U+DC3C", "U+DC3D", "U+DC3E",
         "U+DC3F", "U+DC40", "U+DC41", "U+DC42", "U+DC43", "U+DC44", "U+DC45",
         "U+DC46", "U+DC47", "U+DC48", "U+DC49", "U+DC4A", "U+DC4B", "U+DC4C",
         "U+DC4D", "U+DC4E", "U+DC4F", "U+DC50", "U+DC51", "U+DC52", "U+DC53",
         "U+DC54", "U+DC56", "U+DC57", "U+DC58", "U+DC59", "U+DC5A", "U+DC5B",
         "U+DC5C", "U+DC5D", "U+DC5E", "U+DC5F", "U+DC60", "U+DC61", "U+DC62",
         "U+DC63", "U+DC64", "U+DC65", "U+DC66", "U+DC67", "U+DC68", "U+DC69",
         "U+DC6A", "U+DC6B", "U+DC6C", "U+DC6D", "U+DC6E", "U+DC6F", "U+DC70",
         "U+DC71", "U+DC72", "U+DC73", "U+DC74", "U+DC75", "U+DC76", "U+DC77",
         "U+DC78", "U+DC79", "U+DC7A", "U+DC7B", "U+DC7C", "U+DC7D", "U+DC7E",
         "U+DC7F", "U+DC80", "U+DC81", "U+DC82", "U+DC83", "U+DC84", "U+DC85",
         "U+DC86", "U+DC87", "U+DC88", "U+DC89", "U+DC8A", "U+DC8B", "U+DC8C",
         "U+DC8D", "U+DC8E", "U+DC8F", "U+DC90", "U+DC91", "U+DC92", "U+DC93",
         "U+DC94", "U+DC95", "U+DC96", "U+DC97", "U+DC98", "U+DC99", "U+DC9A",
         "U+DC9B", "U+DC9C", "U+DC9E", "U+DC9F", "U+DCA2", "U+DCA5", "U+DCA6",
         "U+DCA9", "U+DCAA", "U+DCAB", "U+DCAC", "U+DCAE", "U+DCAF", "U+DCB0",
         "U+DCB1", "U+DCB2", "U+DCB3", "U+DCB4", "U+DCB5", "U+DCB6", "U+DCB7",
         "U+DCB8", "U+DCB9", "U+DCBB", "U+DCBD", "U+DCBE", "U+DCBF", "U+DCC0",
         "U+DCC1", "U+DCC2", "U+DCC3", "U+DCC5", "U+DCC6", "U+DCC7", "U+DCC8",
         "U+DCC9", "U+DCCA", "U+DCCB", "U+DCCC", "U+DCCD", "U+DCCE", "U+DCCF",
         "U+DCD0", "U+DCD1", "U+DCD2", "U+DCD3", "U+DCD4", "U+DCD5", "U+DCD6",
         "U+DCD7", "U+DCD8", "U+DCD9", "U+DCDA", "U+DCDB", "U+DCDC", "U+DCDD",
         "U+DCDE", "U+DCDF", "U+DCE0", "U+DCE1", "U+DCE2", "U+DCE3", "U+DCE4",
         "U+DCE5", "U+DCE6", "U+DCE7", "U+DCE8", "U+DCE9", "U+DCEA", "U+DCEB",
         "U+DCEC", "U+DCED", "U+DCEE", "U+DCEF", "U+DCF0", "U+DCF1", "U+DCF2",
         "U+DCF3", "U+DCF4", "U+DCF5", "U+DCF6", "U+DCF7", "U+DCF8", "U+DCF9",
         "U+DCFA", "U+DCFB", "U+DCFC", "U+DCFD", "U+DCFE", "U+DCFF", "U+DD00",
         "U+DD01", "U+DD02", "U+DD03", "U+DD04", "U+DD05", "U+DD07", "U+DD08",
         "U+DD09", "U+DD0A", "U+DD0D", "U+DD0E", "U+DD0F", "U+DD10", "U+DD11",
         "U+DD12", "U+DD13", "U+DD14", "U+DD16", "U+DD17", "U+DD18", "U+DD19",
         "U+DD1A", "U+DD1B", "U+DD1C", "U+DD1E", "U+DD1F", "U+DD20", "U+DD21",
         "U+DD22", "U+DD23", "U+DD24", "U+DD25", "U+DD26", "U+DD27", "U+DD28",
         "U+DD29", "U+DD2A", "U+DD2B", "U+DD2C", "U+DD2D", "U+DD2E", "U+DD2F",
         "U+DD30", "U+DD31", "U+DD32", "U+DD33", "U+DD34", "U+DD35", "U+DD36",
         "U+DD37", "U+DD38", "U+DD39", "U+DD3B", "U+DD3C", "U+DD3D", "U+DD3E",
         "U+DD40", "U+DD41", "U+DD42", "U+DD43", "U+DD44", "U+DD46", "U+DD4A",
         "U+DD4B", "U+DD4C", "U+DD4D", "U+DD4E", "U+DD4F", "U+DD50", "U+DD52",
         "U+DD53", "U+DD54", "U+DD55", "U+DD56", "U+DD57", "U+DD58", "U+DD59",
         "U+DD5A", "U+DD5B", "U+DD5C", "U+DD5D", "U+DD5E", "U+DD5F", "U+DD60",
         "U+DD61", "U+DD62", "U+DD63", "U+DD64", "U+DD65", "U+DD66", "U+DD67",
         "U+DD68", "U+DD69", "U+DD6A", "U+DD6B", "U+DD6C", "U+DD6D", "U+DD6E",
         "U+DD6F", "U+DD70", "U+DD71", "U+DD72", "U+DD73", "U+DD74", "U+DD75",
         "U+DD76", "U+DD77", "U+DD78", "U+DD79", "U+DD7A", "U+DD7B", "U+DD7C",
         "U+DD7D", "U+DD7E", "U+DD7F", "U+DD80", "U+DD81", "U+DD82", "U+DD83",
         "U+DD84", "U+DD85", "U+DD86", "U+DD87", "U+DD88", "U+DD89", "U+DD8A",
         "U+DD8B", "U+DD8C", "U+DD8D", "U+DD8E", "U+DD8F", "U+DD90", "U+DD91",
         "U+DD92", "U+DD93", "U+DD94", "U+DD95", "U+DD96", "U+DD97", "U+DD98",
         "U+DD99", "U+DD9A", "U+DD9B", "U+DD9C", "U+DD9D", "U+DD9E", "U+DD9F",
         "U+DDA0", "U+DDA1", "U+DDA2", "U+DDA3", "U+DDA4", "U+DDA5", "U+DDA6",
         "U+DDA7", "U+DDA8", "U+DDA9", "U+DDAA", "U+DDAB", "U+DDAC", "U+DDAD",
         "U+DDAE", "U+DDAF", "U+DDB0", "U+DDB1", "U+DDB2", "U+DDB3", "U+DDB4",
         "U+DDB5", "U+DDB6", "U+DDB7", "U+DDB8", "U+DDB9", "U+DDBA", "U+DDBB",
         "U+DDBC", "U+DDBD", "U+DDBE", "U+DDBF", "U+DDC0", "U+DDC1", "U+DDC2",
         "U+DDC3", "U+DDC4", "U+DDC5", "U+DDC6", "U+DDC7", "U+DDC8", "U+DDC9",
         "U+DDCA", "U+DDCB", "U+DDCC", "U+DDCD", "U+DDCE", "U+DDCF", "U+DDD0",
         "U+DDD1", "U+DDD2", "U+DDD3", "U+DDD4", "U+DDD5", "U+DDD6", "U+DDD7",
         "U+DDD8", "U+DDD9", "U+DDDA", "U+DDDB", "U+DDDC", "U+DDDD", "U+DDDE",
         "U+DDDF", "U+DDE0", "U+DDE1", "U+DDE2", "U+DDE3", "U+DDE4", "U+DDE5",
         "U+DDE6", "U+DDE7", "U+DDE8", "U+DDE9", "U+DDEA", "U+DDEB", "U+DDEC",
         "U+DDED", "U+DDEE", "U+DDEF", "U+DDF0", "U+DDF1", "U+DDF2", "U+DDF3",
         "U+DDF4", "U+DDF5", "U+DDF6", "U+DDF7", "U+DDF8", "U+DDF9", "U+DDFA",
         "U+DDFB", "U+DDFC", "U+DDFD", "U+DDFE", "U+DDFF", "U+DE00", "U+DE01",
         "U+DE02", "U+DE03", "U+DE04", "U+DE05", "U+DE06", "U+DE07", "U+DE08",
         "U+DE09", "U+DE0A", "U+DE0B", "U+DE0C", "U+DE0D", "U+DE0E", "U+DE0F",
         "U+DE10", "U+DE11", "U+DE12", "U+DE13", "U+DE14", "U+DE15", "U+DE16",
         "U+DE17", "U+DE18", "U+DE19", "U+DE1A", "U+DE1B", "U+DE1C", "U+DE1D",
         "U+DE1E", "U+DE1F", "U+DE20", "U+DE21", "U+DE22", "U+DE23", "U+DE24",
         "U+DE25", "U+DE26", "U+DE27", "U+DE28", "U+DE29", "U+DE2A", "U+DE2B",
         "U+DE2C", "U+DE2D", "U+DE2E", "U+DE2F", "U+DE30", "U+DE31", "U+DE32",
         "U+DE33", "U+DE34", "U+DE35", "U+DE36", "U+DE37", "U+DE38", "U+DE39",
         "U+DE3A", "U+DE3B", "U+DE3C", "U+DE3D", "U+DE3E", "U+DE3F", "U+DE40",
         "U+DE41", "U+DE42", "U+DE43", "U+DE44", "U+DE45", "U+DE46", "U+DE47",
         "U+DE48", "U+DE49", "U+DE4A", "U+DE4B", "U+DE4C", "U+DE4D", "U+DE4E",
         "U+DE4F", "U+DE50", "U+DE51", "U+DE52", "U+DE53", "U+DE54", "U+DE55",
         "U+DE56", "U+DE57", "U+DE58", "U+DE59", "U+DE5A", "U+DE5B", "U+DE5C",
         "U+DE5D", "U+DE5E", "U+DE5F", "U+DE60", "U+DE61", "U+DE62", "U+DE63",
         "U+DE64", "U+DE65", "U+DE66", "U+DE67", "U+DE68", "U+DE69", "U+DE6A",
         "U+DE6B", "U+DE6C", "U+DE6D", "U+DE6E", "U+DE6F", "U+DE70", "U+DE71",
         "U+DE72", "U+DE73", "U+DE74", "U+DE75", "U+DE76", "U+DE77", "U+DE78",
         "U+DE79", "U+DE7A", "U+DE7B", "U+DE7C", "U+DE7D", "U+DE7E", "U+DE7F",
         "U+DE80", "U+DE81", "U+DE82", "U+DE83", "U+DE84", "U+DE85", "U+DE86",
         "U+DE87", "U+DE88", "U+DE89", "U+DE8A", "U+DE8B", "U+DE8C", "U+DE8D",
         "U+DE8E", "U+DE8F", "U+DE90", "U+DE91", "U+DE92", "U+DE93", "U+DE94",
         "U+DE95", "U+DE96", "U+DE97", "U+DE98", "U+DE99", "U+DE9A", "U+DE9B",
         "U+DE9C", "U+DE9D", "U+DE9E", "U+DE9F", "U+DEA0", "U+DEA1", "U+DEA2",
         "U+DEA3", "U+DEA4", "U+DEA5", "U+DEA8", "U+DEA9", "U+DEAA", "U+DEAB",
         "U+DEAC", "U+DEAD", "U+DEAE", "U+DEAF", "U+DEB0", "U+DEB1", "U+DEB2",
         "U+DEB3", "U+DEB4", "U+DEB5", "U+DEB6", "U+DEB7", "U+DEB8", "U+DEB9",
         "U+DEBA", "U+DEBB", "U+DEBC", "U+DEBD", "U+DEBE", "U+DEBF", "U+DEC0",
         "U+DEC2", "U+DEC3", "U+DEC4", "U+DEC5", "U+DEC6", "U+DEC7", "U+DEC8",
         "U+DEC9", "U+DECA", "U+DECB", "U+DECC", "U+DECD", "U+DECE", "U+DECF",
         "U+DED0", "U+DED1", "U+DED2", "U+DED3", "U+DED4", "U+DED5", "U+DED6",
         "U+DED7", "U+DED8", "U+DED9", "U+DEDA", "U+DEDC", "U+DEDD", "U+DEDE",
         "U+DEDF", "U+DEE0", "U+DEE1", "U+DEE2", "U+DEE3", "U+DEE4", "U+DEE5",
         "U+DEE6", "U+DEE7", "U+DEE8", "U+DEE9", "U+DEEA", "U+DEEB", "U+DEEC",
         "U+DEED", "U+DEEE", "U+DEEF", "U+DEF0", "U+DEF1", "U+DEF2", "U+DEF3",
         "U+DEF4", "U+DEF5", "U+DEF6", "U+DEF7", "U+DEF8", "U+DEF9", "U+DEFA",
         "U+DEFC", "U+DEFD", "U+DEFE", "U+DEFF", "U+DF00", "U+DF01", "U+DF02",
         "U+DF03", "U+DF04", "U+DF05", "U+DF06", "U+DF07", "U+DF08", "U+DF09",
         "U+DF0A", "U+DF0B", "U+DF0C", "U+DF0D", "U+DF0E", "U+DF0F", "U+DF10",
         "U+DF11", "U+DF12", "U+DF13", "U+DF14", "U+DF16", "U+DF17", "U+DF18",
         "U+DF19", "U+DF1A", "U+DF1B", "U+DF1C", "U+DF1D", "U+DF1E", "U+DF1F",
         "U+DF20", "U+DF21", "U+DF22", "U+DF23", "U+DF24", "U+DF25", "U+DF26",
         "U+DF27", "U+DF28", "U+DF29", "U+DF2A", "U+DF2B", "U+DF2C", "U+DF2D",
         "U+DF2E", "U+DF2F", "U+DF30", "U+DF31", "U+DF32", "U+DF33", "U+DF34",
         "U+DF36", "U+DF37", "U+DF38", "U+DF39", "U+DF3A", "U+DF3B", "U+DF3C",
         "U+DF3D", "U+DF3E", "U+DF3F", "U+DF40", "U+DF41", "U+DF42", "U+DF43",
         "U+DF44", "U+DF45", "U+DF46", "U+DF47", "U+DF48", "U+DF49", "U+DF4A",
         "U+DF4B", "U+DF4C", "U+DF4D", "U+DF4E", "U+DF50", "U+DF51", "U+DF52",
         "U+DF53", "U+DF54", "U+DF55", "U+DF56", "U+DF57", "U+DF58", "U+DF59",
         "U+DF5A", "U+DF5B", "U+DF5C", "U+DF5D", "U+DF5E", "U+DF5F", "U+DF60",
         "U+DF61", "U+DF62", "U+DF63", "U+DF64", "U+DF65", "U+DF66", "U+DF67",
         "U+DF68", "U+DF69", "U+DF6A", "U+DF6B", "U+DF6C", "U+DF6D", "U+DF6E",
         "U+DF70", "U+DF71", "U+DF72", "U+DF73", "U+DF74", "U+DF75", "U+DF76",
         "U+DF77", "U+DF78", "U+DF79", "U+DF7A", "U+DF7B", "U+DF7C", "U+DF7D",
         "U+DF7E", "U+DF7F", "U+DF80", "U+DF81", "U+DF82", "U+DF83", "U+DF84",
         "U+DF85", "U+DF86", "U+DF87", "U+DF88", "U+DF8A", "U+DF8B", "U+DF8C",
         "U+DF8D", "U+DF8E", "U+DF8F", "U+DF90", "U+DF91", "U+DF92", "U+DF93",
         "U+DF94", "U+DF95", "U+DF96", "U+DF97", "U+DF98", "U+DF99", "U+DF9A",
         "U+DF9B", "U+DF9C", "U+DF9D", "U+DF9E", "U+DF9F", "U+DFA0", "U+DFA1",
         "U+DFA2", "U+DFA3", "U+DFA4", "U+DFA5", "U+DFA6", "U+DFA7", "U+DFA8",
         "U+DFAA", "U+DFAB", "U+DFAC", "U+DFAD", "U+DFAE", "U+DFAF", "U+DFB0",
         "U+DFB1", "U+DFB2", "U+DFB3", "U+DFB4", "U+DFB5", "U+DFB6", "U+DFB7",
         "U+DFB8", "U+DFB9", "U+DFBA", "U+DFBB", "U+DFBC", "U+DFBD", "U+DFBE",
         "U+DFBF", "U+DFC0", "U+DFC1", "U+DFC2", "U+DFC4", "U+DFC5", "U+DFC6",
         "U+DFC7", "U+DFC8", "U+DFC9", "U+DFCA", "U+DFCB"}}
    \cup
    {<<"U+D837", lo>> : lo \in
        {"U+DF00", "U+DF01", "U+DF02", "U+DF03", "U+DF04", "U+DF05", "U+DF06",
         "U+DF07", "U+DF08", "U+DF09", "U+DF0B", "U+DF0C", "U+DF0D", "U+DF0E",
         "U+DF0F", "U+DF10", "U+DF11", "U+DF12", "U+DF13", "U+DF14", "U+DF15",
         "U+DF16", "U+DF17", "U+DF18", "U+DF19", "U+DF1A", "U+DF1B", "U+DF1C",
         "U+DF1D", "U+DF1E", "U+DF25", "U+DF26", "U+DF27", "U+DF28", "U+DF29",
         "U+DF2A"}}
    \cup
    {<<"U+D83A", lo>> : lo \in
        {"U+DD00", "U+DD01", "U+DD02", "U+DD03", "U+DD04", "U+DD05", "U+DD06",
         "U+DD07", "U+DD08", "U+DD09", "U+DD0A", "U+DD0B", "U+DD0C", "U+DD0D",
         "U+DD0E", "U+DD0F", "U+DD10", "U+DD11", "U+DD12", "U+DD13", "U+DD14",
         "U+DD15", "U+DD16", "U+DD17", "U+DD18", "U+DD19", "U+DD1A", "U+DD1B",
         "U+DD1C", "U+DD1D", "U+DD1E", "U+DD1F", "U+DD20", "U+DD21", "U+DD22",
         "U+DD23", "U+DD24", "U+DD25", "U+DD26", "U+DD27", "U+DD28", "U+DD29",
         "U+DD2A", "U+DD2B", "U+DD2C", "U+DD2D", "U+DD2E", "U+DD2F", "U+DD30",
         "U+DD31", "U+DD32", "U+DD33", "U+DD34", "U+DD35", "U+DD36", "U+DD37",
         "U+DD38", "U+DD39", "U+DD3A", "U+DD3B", "U+DD3C", "U+DD3D", "U+DD3E",
         "U+DD3F", "U+DD40", "U+DD41", "U+DD42", "U+DD43"}}
    \cup
    {<<"U+D83C", lo>> : lo \in
        {"U+DD30", "U+DD31", "U+DD32", "U+DD33", "U+DD34", "U+DD35", "U+DD36",
         "U+DD37", "U+DD38", "U+DD39", "U+DD3A", "U+DD3B", "U+DD3C", "U+DD3D",
         "U+DD3E", "U+DD3F", "U+DD40", "U+DD41", "U+DD42", "U+DD43", "U+DD44",
         "U+DD45", "U+DD46", "U+DD47", "U+DD48", "U+DD49", "U+DD50", "U+DD51",
         "U+DD52", "U+DD53", "U+DD54", "U+DD55", "U+DD56", "U+DD57", "U+DD58",
         "U+DD59", "U+DD5A", "U+DD5B", "U+DD5C", "U+DD5D", "U+DD5E", "U+DD5F",
         "U+DD60", "U+DD61", "U+DD62", "U+DD63", "U+DD64", "U+DD65", "U+DD66",
         "U+DD67", "U+DD68", "U+DD69", "U+DD70", "U+DD71", "U+DD72", "U+DD73",
         "U+DD74", "U+DD75", "U+DD76", "U+DD77", "U+DD78", "U+DD79", "U+DD7A",
         "U+DD7B", "U+DD7C", "U+DD7D", "U+DD7E", "U+DD7F", "U+DD80", "U+DD81",
         "U+DD82", "U+DD83", "U+DD84", "U+DD85", "U+DD86", "U+DD87", "U+DD88",
         "U+DD89"}}

\* Unicode Case_Ignorable: single code units, and surrogate pairs
CaseIgnorable ==
    {"'", ".", ":", "^", GRAVE, "¨", "­", "¯", "´", "·", "¸", "U+02B0",
     "U+02B1", "U+02B2", "U+02B3", "U+02B4", "U+02B5", "U+02B6", "U+02B7",
     "U+02B8", "U+02B9", "U+02BA", "U+02BB", "U+02BC", "U+02BD", "U+02BE",
     "U+02BF", "U+02C0", "U+02C1", "U+02C2", "U+02C3", "U+02C4", "U+02C5",
     "U+02C6", "U+02C7", "U+02C8", "U+02C9", "U+02CA", "U+02CB", "U+02CC",
     "U+02CD", "U+02CE", "U+02CF", "U+02D0", "U+02D1", "U+02D2", "U+02D3",
     "U+02D4", "U+02D5", "U+02D6", "U+02D7", "U+02D8", "U+02D9", "U+02DA",
     "U+02DB", "U+02DC", "U+02DD", "U+02DE", "U+02DF", "U+02E0", "U+02E1",
     "U+02E2", "U+02E3", "U+02E4", "U+02E5", "U+02E6", "U+02E7", "U+02E8",
     "U+02E9", "U+02EA", "U+02EB", "U+02EC", "U+02ED", "U+02EE", "U+02EF",
     "U+02F0", "U+02F1", "U+02F2", "U+02F3", "U+02F4", "U+02F5", "U+02F6",
     "U+02F7", "U+02F8", "U+02F9", "U+02FA", "U+02FB", "U+02FC", "U+02FD",
     "U+02FE", "U+02FF", "U+0300", "U+0301", "U+0302", "U+0303", "U+0304",
     "U+0305", "U+0306", "U+0307", "U+0308", "U+0309", "U+030A", "U+030B",
     "U+030C", "U+030D", "U+030E", "U+030F", "U+0310", "U+0311", "U+0312",
     "U+0313", "U+0314", "U+0315", "U+0316", "U+0317", "U+0318", "U+0319",
     "U+031A", "U+031B", "U+031C", "U+031D", "U+031E", "U+031F", "U+0320",
     "U+0321", "U+0322", "U+0323", "U+0324", "U+0325", "U+0326", "U+0327",
     "U+0328", "U+0329", "U+032A", "U+032B", "U+032C", "U+032D", "U+032E",
     "U+032F", "U+0330", "U+0331", "U+0332", "U+0333", "U+0334", "U+0335",
     "U+0336", "U+0337", "U+0338", "U+0339", "U+033A", "U+033B", "U+033C",
     "U+033D", "U+033E", "U+033F", "U+0340", "U+0341", "U+0342", "U+0343",
     "U+0344", "U+0345", "U+0346", "U+0347", "U+0348", "U+0349", "U+034A",
     "U+034B", "U+034C", "U+034D", "U+034E", "U+034F", "U+0350", "U+0351",
     "U+0352", "U+0353", "U+0354", "U+0355", "U+0356", "U+0357", "U+0358",
     "U+0359", "U+035A", "U+035B", "U+035C", "U+035D", "U+035E", "U+035F",
     "U+0360", "U+0361", "U+0362", "U+0363", "U+0364", "U+0365", "U+0366",
     "U+0367", "U+0368", "U+0369", "U+036A", "U+036B", "U+036C", "U+036D",
     "U+036E", "U+036F", "U+0374", "U+0375", "U+037A", "΄", "΅", "·",
     "U+0483", "U+0484", "U+0485", "U+0486", "U+0487", "U+0488", "U+0489",
     "U+0559", "U+055F", "U+0591", "U+0592", "U+0593", "U+0594", "U+0595",
     "U+0596", "U+0597", "U+0598", "U+0599", "U+059A", "U+059B", "U+059C",
     "U+059D", "U+059E", "U+059F", "U+05A0", "U+05A1", "U+05A2", "U+05A3",
     "U+05A4", "U+05A5", "U+05A6", "U+05A7", "U+05A8", "U+05A9", "U+05AA",
     "U+05AB", "U+05AC", "U+05AD", "U+05AE", "U+05AF", "U+05B0", "U+05B1",
     "U+05B2", "U+05B3", "U+05B4", "U+05B5", "U+05B6", "U+05B7", "U+05B8",
     "U+05B9", "U+05BA", "U+05BB", "U+05BC", "U+05BD", "U+05BF", "U+05C1",
     "U+05C2", "U+05C4", "U+05C5", "U+05C7", "U+05F4", "U+0600", "U+0601",
     "U+0602", "U+0603", "U+0604", "U+0605", "U+0610", "U+0611", "U+0612",
     "U+0613", "U+0614", "U+0615", "U+0616", "U+0617", "U+0618", "U+0619",
     "U+061A", "U+061C", "U+0640", "U+064B", "U+064C", "U+064D", "U+064E",
     "U+064F", "U+0650", "U+0651", "U+0652", "U+0653", "U+0654", "U+0655",
     "U+0656", "U+0657", "U+0658", "U+0659", "U+065A", "U+065B", "U+065C",
     "U+065D", "U+065E", "U+065F", "U+0670", "U+06D6", "U+06D7", "U+06D8",
     "U+06D9", "U+06DA", "U+06DB", "U+06DC", "U+06DD", "U+06DF", "U+06E0",
     "U+06E1", "U+06E2", "U+06E3", "U+06E4", "U+06E5", "U+06E6", "U+06E7",
     "U+06E8", "U+06EA", "U+06EB", "U+06EC", "U+06ED", "U+070F", "U+0711",
     "U+0730", "U+0731", "U+0732", "U+0733", "U+0734", "U+0735", "U+0736",
     "U+0737", "U+0738", "U+0739", "U+073A", "U+073B", "U+073C", "U+073D",
     "U+073E", "U+073F", "U+0740", "U+0741", "U+0742", "U+0743", "U+0744",
     "U+0745", "U+0746", "U+0747", "U+0748", "U+0749", "U+074A", "U+07A6",
     "U+07A7", "U+07A8", "U+07A9", "U+07AA", "U+07AB", "U+07AC", "U+07AD",
     "U+07AE", "U+07AF", "U+07B0", "U+07EB", "U+07EC", "U+07ED", "U+07EE",
     "U+07EF", "U+07F0", "U+07F1", "U+07F2", "U+07F3", "U+07F4", "U+07F5",
     "U+07FA", "U+07FD", "U+0816", "U+0817", "U+0818", "U+0819", "U+081A",
     "U+081B", "U+081C", "U+081D", "U+081E", "U+081F", "U+0820", "U+0821",
     "U+0822", "U+0823", "U+0824", "U+0825", "U+0826", "U+0827", "U+0828",
     "U+0829", "U+082A", "U+082B", "U+082C", "U+082D", "U+0859", "U+085A",
     "U+085B", "U+0888", "U+0890", "U+0891", "U+0897", "U+0898", "U+0899",
     "U+089A", "U+089B", "U+089C", "U+089D", "U+089E", "U+089F", "U+08C9",
     "U+08CA", "U+08CB", "U+08CC", "U+08CD", "U+08CE", "U+08CF", "U+08D0",
     "U+08D1", "U+08D2", "U+08D3", "U+08D4", "U+08D5", "U+08D6", "U+08D7",
     "U+08D8", "U+08D9", "U+08DA", "U+08DB", "U+08DC", "U+08DD", "U+08DE",
     "U+08DF", "U+08E0", "U+08E1", "U+08E2", "U+08E3", "U+08E4", "U+08E5",
     "U+08E6", "U+08E7", "U+08E8", "U+08E9", "U+08EA", "U+08EB", "U+08EC",
     "U+08ED", "U+08EE", "U+08EF", "U+08F0", "U+08F1", "U+08F2", "U+08F3",
     "U+08F4", "U+08F5", "U+08F6", "U+08F7", "U+08F8", "U+08F9", "U+08FA",
     "U+08FB", "U+08FC", "U+08FD", "U+08FE", "U+08FF", "U+0900", "U+0901",
     "U+0902", "U+093A", "U+093C", "U+0941", "U+0942", "U+0943", "U+0944",
     "U+0945", "U+0946", "U+0947", "U+0948", "U+094D", "U+0951", "U+0952",
     "U+0953", "U+0954", "U+0955", "U+0956", "U+0957", "U+0962", "U+0963",
     "U+0971", "U+0981", "U+09BC", "U+09C1", "U+09C2", "U+09C3", "U+09C4",
     "U+09CD", "U+09E2", "U+09E3", "U+09FE", "U+0A01", "U+0A02", "U+0A3C",
     "U+0A41", "U+0A42", "U+0A47", "U+0A48", "U+0A4B", "U+0A4C", "U+0A4D",
     "U+0A51", "U+0A70", "U+0A71", "U+0A75", "U+0A81", "U+0A82", "U+0ABC",
     "U+0AC1", "U+0AC2", "U+0AC3", "U+0AC4", "U+0AC5", "U+0AC7", "U+0AC8",
     "U+0ACD", "U+0AE2", "U+0AE3", "U+0AFA", "U+0AFB", "U+0AFC", "U+0AFD",
     "U+0AFE", "U+0AFF", "U+0B01", "U+0B3C", "U+0B3F", "U+0B41", "U+0B42",
     "U+0B43", "U+0B44", "U+0B4D", "U+0B55", "U+0B56", "U+0B62", "U+0B63",
     "U+0B82", "U+0BC0", "U+0BCD", "U+0C00", "U+0C04", "U+0C3C", "U+0C3E",
     "U+0C3F", "U+0C40", "U+0C46", "U+0C47", "U+0C48", "U+0C4A", "U+0C4B",
     "U+0C4C", "U+0C4D", "U+0C55", "U+0C56", "U+0C62", "U+0C63", "U+0C81",
     "U+0CBC", "U+0CBF", "U+0CC6", "U+0CCC", "U+0CCD", "U+0CE2", "U+0CE3",
     "U+0D00", "U+0D01", "U+0D3B", "U+0D3C", "U+0D41", "U+0D42", "U+0D43",
     "U+0D44", "U+0D4D", "U+0D62", "U+0D63", "U+0D81", "U+0DCA", "U+0DD2",
     "U+0DD3", "U+0DD4", "U+0DD6", "U+0E31", "U+0E34", "U+0E35", "U+0E36",
     "U+0E37", "U+0E38", "U+0E39", "U+0E3A", "U+0E46", "U+0E47", "U+0E48",
     "U+0E49", "U+0E4A", "U+0E4B", "U+0E4C", "U+0E4D", "U+0E4E", "U+0EB1",
     "U+0EB4", "U+0EB5", "U+0EB6", "U+0EB7", "U+0EB8", "U+0EB9", "U+0EBA",
     "U+0EBB", "U+0EBC", "U+0EC6", "U+0EC8", "U+0EC9", "U+0ECA", "U+0ECB",
     "U+0ECC", "U+0ECD", "U+0ECE", "U+0F18", "U+0F19", "U+0F35", "U+0F37",
     "U+0F39", "U+0F71", "U+0F72", "U+0F73", "U+0F74", "U+0F75", "U+0F76",
     "U+0F77", "U+0F78", "U+0F79", "U+0F7A", "U+0F7B", "U+0F7C", "U+0F7D",
     "U+0F7E", "U+0F80", "U+0F81", "U+0F82", "U+0F83", "U+0F84", "U+0F86",
     "U+0F87", "U+0F8D", "U+0F8E", "U+0F8F", "U+0F90", "U+0F91", "U+0F92",
     "U+0F93", "U+0F94", "U+0F95", "U+0F96", "U+0F97", "U+0F99", "U+0F9A",
     "U+0F9B", "U+0F9C", "U+0F9D", "U+0F9E", "U+0F9F", "U+0FA0", "U+0FA1",
     "U+0FA2", "U+0FA3", "U+0FA4", "U+0FA5", "U+0FA6", "U+0FA7", "U+0FA8",
     "U+0FA9", "U+0FAA", "U+0FAB", "U+0FAC", "U+0FAD", "U+0FAE", "U+0FAF",
     "U+0FB0", "U+0FB1", "U+0FB2", "U+0FB3", "U+0FB4", "U+0FB5", "U+0FB6",
     "U+0FB7", "U+0FB8", "U+0FB9", "U+0FBA", "U+0FBB", "U+0FBC", "U+0FC6",
     "U+102D", "U+102E", "U+102F", "U+1030", "U+1032", "U+1033", "U+1034",
     "U+1035", "U+1036", "U+1037", "U+1039", "U+103A", "U+103D", "U+103E",
     "U+1058", "U+1059", "U+105E", "U+105F", "U+1060", "U+1071", "U+1072",
     "U+1073", "U+1074", "U+1082", "U+1085", "U+1086", "U+108D", "U+109D",
     "U+10FC", "U+135D", "U+135E", "U+135F", "U+1712", "U+1713", "U+1714",
     "U+1732", "U+1733", "U+1752", "U+1753", "U+1772", "U+1773", "U+17B4",
     "U+17B5", "U+17B7", "U+17B8", "U+17B9", "U+17BA", "U+17BB", "U+17BC",
     "U+17BD", "U+17C6", "U+17C9", "U+17CA", "U+17CB", "U+17CC", "U+17CD",
     "U+17CE", "U+17CF", "U+17D0", "U+17D1", "U+17D2", "U+17D3", "U+17D7",
     "U+17DD", "U+180B", "U+180C", "U+180D", "U+180E", "U+180F", "U+1843",
     "U+1885", "U+1886", "U+18A9", "U+1920", "U+1921", "U+1922", "U+1927",
     "U+1928", "U+1932", "U+1939", "U+193A", "U+193B", "U+1A17", "U+1A18",
     "U+1A1B", "U+1A56", "U+1A58", "U+1A59", "U+1A5A", "U+1A5B", "U+1A5C",
     "U+1A5D", "U+1A5E", "U+1A60", "U+1A62", "U+1A65", "U+1A66", "U+1A67",
     "U+1A68", "U+1A69", "U+1A6A", "U+1A6B", "U+1A6C", "U+1A73", "U+1A74",
     "U+1A75", "U+1A76", "U+1A77", "U+1A78", "U+1A79", "U+1A7A", "U+1A7B",
     "U+1A7C", "U+1A7F", "U+1AA7", "U+1AB0", "U+1AB1", "U+1AB2", "U+1AB3",
     "U+1AB4", "U+1AB5", "U+1AB6", "U+1AB7", "U+1AB8", "U+1AB9", "U+1ABA",
     "U+1ABB", "U+1ABC", "U+1ABD", "U+1ABE", "U+1ABF", "U+1AC0", "U+1AC1",
     "U+1AC2", "U+1AC3", "U+1AC4", "U+1AC5", "U+1AC6", "U+1AC7", "U+1AC8",
     "U+1AC9", "U+1ACA", "U+1ACB", "U+1ACC", "U+1ACD", "U+1ACE", "U+1ACF",
     "U+1AD0", "U+1AD1", "U+1AD2", "U+1AD3", "U+1AD4", "U+1AD5", "U+1AD6",
     "U+1AD7", "U+1AD8", "U+1AD9", "U+1ADA", "U+1ADB", "U+1ADC", "U+1ADD",
     "U+1AE0", "U+1AE1", "U+1AE2", "U+1AE3", "U+1AE4", "U+1AE5", "U+1AE6",
     "U+1AE7", "U+1AE8", "U+1AE9", "U+1AEA", "U+1AEB", "U+1B00", "U+1B01",
     "U+1B02", "U+1B03", "U+1B34", "U+1B36", "U+1B37", "U+1B38", "U+1B39",
     "U+1B3A", "U+1B3C", "U+1B42", "U+1B6B", "U+1B6C", "U+1B6D", "U+1B6E",
     "U+1B6F", "U+1B70", "U+1B71", "U+1B72", "U+1B73", "U+1B80", "U+1B81",
     "U+1BA2", "U+1BA3", "U+1BA4", "U+1BA5", "U+1BA8", "U+1BA9", "U+1BAB",
     "U+1BAC", "U+1BAD", "U+1BE6", "U+1BE8", "U+1BE9", "U+1BED", "U+1BEF",
     "U+1BF0", "U+1BF1", "U+1C2C", "U+1C2D", "U+1C2E", "U+1C2F", "U+1C30",
     "U+1C31", "U+1C32", "U+1C33", "U+1C36", "U+1C37", "U+1C78", "U+1C79",
     "U+1C7A", "U+1C7B", "U+1C7C", "U+1C7D", "U+1CD0", "U+1CD1", "U+1CD2",
     "U+1CD4", "U+1CD5", "U+1CD6", "U+1CD7", "U+1CD8", "U+1CD9", "U+1CDA",
     "U+1CDB", "U+1CDC", "U+1CDD", "U+1CDE", "U+1CDF", "U+1CE0", "U+1CE2",
     "U+1CE3", "U+1CE4", "U+1CE5", "U+1CE6", "U+1CE7", "U+1CE8", "U+1CED",
     "U+1CF4", "U+1CF8", "U+1CF9", "U+1D2C", "U+1D2D", "U+1D2E", "U+1D2F",
     "U+1D30", "U+1D31", "U+1D32", "U+1D33", "U+1D34", "U+1D35", "U+1D36",
     "U+1D37", "U+1D38", "U+1D39", "U+1D3A", "U+1D3B", "U+1D3C", "U+1D3D",
     "U+1D3E", "U+1D3F", "U+1D40", "U+1D41", "U+1D42", "U+1D43", "U+1D44",
     "U+1D45", "U+1D46", "U+1D47", "U+1D48", "U+1D49", "U+1D4A", "U+1D4B",
     "U+1D4C", "U+1D4D", "U+1D4E", "U+1D4F", "U+1D50", "U+1D51", "U+1D52",
     "U+1D53", "U+1D54", "U+1D55", "U+1D56", "U+1D57", "U+1D58", "U+1D59",
     "U+1D5A", "U+1D5B", "U+1D5C", "U+1D5D", "U+1D5E", "U+1D5F", "U+1D60",
     "U+1D61", "U+1D62", "U+1D63", "U+1D64", "U+1D65", "U+1D66", "U+1D67",
     "U+1D68", "U+1D69", "U+1D6A", "U+1D78", "U+1D9B", "U+1D9C", "U+1D9D",
     "U+1D9E", "U+1D9F", "U+1DA0", "U+1DA1", "U+1DA2", "U+1DA3", "U+1DA4",
     "U+1DA5", "U+1DA6", "U+1DA7", "U+1DA8", "U+1DA9", "U+1DAA", "U+1DAB",
     "U+1DAC", "U+1DAD", "U+1DAE", "U+1DAF", "U+1DB0", "U+1DB1", "U+1DB2",
     "U+1DB3", "U+1DB4", "U+1DB5", "U+1DB6", "U+1DB7", "U+1DB8", "U+1DB9",
     "U+1DBA", "U+1DBB", "U+1DBC", "U+1DBD", "U+1DBE", "U+1DBF", "U+1DC0",
     "U+1DC1", "U+1DC2", "U+1DC3", "U+1DC4", "U+1DC5", "U+1DC6", "U+1DC7",
     "U+1DC8", "U+1DC9", "U+1DCA", "U+1DCB", "U+1DCC", "U+1DCD", "U+1DCE",
     "U+1DCF", "U+1DD0", "U+1DD1", "U+1DD2", "U+1DD3", "U+1DD4", "U+1DD5",
     "U+1DD6", "U+1DD7", "U+1DD8", "U+1DD9", "U+1DDA", "U+1DDB", "U+1DDC",
     "U+1DDD", "U+1DDE", "U+1DDF", "U+1DE0", "U+1DE1", "U+1DE2", "U+1DE3",
     "U+1DE4", "U+1DE5", "U+1DE6", "U+1DE7", "U+1DE8", "U+1DE9", "U+1DEA",
     "U+1DEB", "U+1DEC", "U+1DED", "U+1DEE", "U+1DEF", "U+1DF0", "U+1DF1",
     "U+1DF2", "U+1DF3", "U+1DF4", "U+1DF5", "U+1DF6", "U+1DF7", "U+1DF8",
     "U+1DF9", "U+1DFA", "U+1DFB", "U+1DFC", "U+1DFD", "U+1DFE", "U+1DFF",
     "U+1FBD", "U+1FBF", "U+1FC0", "U+1FC1", "U+1FCD", "U+1FCE", "U+1FCF",
     "U+1FDD", "U+1FDE", "U+1FDF", "U+1FED", "U+1FEE", "U+1FEF", "U+1FFD",
     "U+1FFE", "U+200B", "U+200C", "U+200D", "U+200E", "U+200F", "U+2018",
     "U+2019", "U+2024", "U+2027", "U+202A", "U+202B", "U+202C", "U+202D",
     "U+202E", "U+2060", "U+2061", "U+2062", "U+2063", "U+2064", "U+2066",
     "U+2067", "U+2068", "U+2069", "U+206A", "U+206B", "U+206C", "U+206D",
     "U+206E", "U+206F", "U+2071", "U+207F", "U+2090", "U+2091", "U+2092",
     "U+2093", "U+2094", "U+2095", "U+2096", "U+2097", "U+2098", "U+2099",
     "U+209A", "U+209B", "U+209C", "U+20D0", "U+20D1", "U+20D2", "U+20D3",
     "U+20D4", "U+20D5", "U+20D6", "U+20D7", "U+20D8", "U+20D9", "U+20DA",
     "U+20DB", "U+20DC", "U+20DD", "U+20DE", "U+20DF", "U+20E0", "U+20E1",
     "U+20E2", "U+20E3", "U+20E4", "U+20E5", "U+20E6", "U+20E7", "U+20E8",
     "U+20E9", "U+20EA", "U+20EB", "U+20EC", "U+20ED", "U+20EE", "U+20EF",
     "U+20F0", "U+2C7C", "U+2C7D", "U+2CEF", "U+2CF0", "U+2CF1", "U+2D6F",
     "U+2D7F", "U+2DE0", "U+2DE1", "U+2DE2", "U+2DE3", "U+2DE4", "U+2DE5",
     "U+2DE6", "U+2DE7", "U+2DE8", "U+2DE9", "U+2DEA", "U+2DEB", "U+2DEC",
     "U+2DED", "U+2DEE", "U+2DEF", "U+2DF0", "U+2DF1", "U+2DF2", "U+2DF3",
     "U+2DF4", "U+2DF5", "U+2DF6", "U+2DF7", "U+2DF8", "U+2DF9", "U+2DFA",
     "U+2DFB", "U+2DFC", "U+2DFD", "U+2DFE", "U+2DFF", "U+2E2F", "U+3005",
     "U+302A", "U+302B", "U+302C", "U+302D", "U+3031", "U+3032", "U+3033",
     "U+3034", "U+3035", "U+303B", "U+3099", "U+309A", "U+309B", "U+309C",
     "U+309D", "U+309E", "U+30FC", "U+30FD", "U+30FE", "U+A015", "U+A4F8",
     "U+A4F9", "U+A4FA", "U+A4FB", "U+A4FC", "U+A4FD", "U+A60C", "U+A66F",
     "U+A670", "U+A671", "U+A672", "U+A674", "U+A675", "U+A676", "U+A677",
     "U+A678", "U+A679", "U+A67A", "U+A67B", "U+A67C", "U+A67D", "U+A67F",
     "U+A69C", "U+A69D", "U+A69E", "U+A69F", "U+A6F0", "U+A6F1", "U+A700",
     "U+A701", "U+A702", "U+A703", "U+A704", "U+A705", "U+A706", "U+A707",
     "U+A708", "U+A709", "U+A70A", "U+A70B", "U+A70C", "U+A70D", "U+A70E",
     "U+A70F", "U+A710", "U+A711", "U+A712", "U+A713", "U+A714", "U+A715",
     "U+A716", "U+A717", "U+A718", "U+A719", "U+A71A", "U+A71B", "U+A71C",
     "U+A71D", "U+A71E", "U+A71F", "U+A720", "U+A721", "U+A770", "U+A788",
     "U+A789", "U+A78A", "U+A7F1", "U+A7F2", "U+A7F3", "U+A7F4", "U+A7F8",
     "U+A7F9", "U+A802", "U+A806", "U+A80B", "U+A825", "U+A826", "U+A82C",
     "U+A8C4", "U+A8C5", "U+A8E0", "U+A8E1", "U+A8E2", "U+A8E3", "U+A8E4",
     "U+A8E5", "U+A8E6", "U+A8E7", "U+A8E8", "U+A8E9", "U+A8EA", "U+A8EB",
     "U+A8EC", "U+A8ED", "U+A8EE", "U+A8EF", "U+A8F0", "U+A8F1", "U+A8FF",
     "U+A926", "U+A927", "U+A928", "U+A929", "U+A92A", "U+A92B", "U+A92C",
     "U+A92D", "U+A947", "U+A948", "U+A949", "U+A94A", "U+A94B", "U+A94C",
     "U+A94D", "U+A94E", "U+A94F", "U+A950", "U+A951", "U+A980", "U+A981",
     "U+A982", "U+A9B3", "U+A9B6", "U+A9B7", "U+A9B8", "U+A9B9", "U+A9BC",
     "U+A9BD", "U+A9CF", "U+A9E5", "U+A9E6", "U+AA29", "U+AA2A", "U+AA2B",
     "U+AA2C", "U+AA2D", "U+AA2E", "U+AA31", "U+AA32", "U+AA35", "U+AA36",
     "U+AA43", "U+AA4C", "U+AA70", "U+AA7C", "U+AAB0", "U+AAB2", "U+AAB3",
     "U+AAB4", "U+AAB7", "U+AAB8", "U+AABE", "U+AABF", "U+AAC1", "U+AADD",
     "U+AAEC", "U+AAED", "U+AAF3", "U+AAF4", "U+AAF6", "U+AB5B", "U+AB5C",
     "U+AB5D", "U+AB5E", "U+AB5F", "U+AB69", "U+AB6A", "U+AB6B", "U+ABE5",
     "U+ABE8", "U+ABED", "U+FB1E", "U+FBB2", "U+FBB3", "U+FBB4", "U+FBB5",
     "U+FBB6", "U+FBB7", "U+FBB8", "U+FBB9", "U+FBBA", "U+FBBB", "U+FBBC",
     "U+FBBD", "U+FBBE", "U+FBBF", "U+FBC0", "U+FBC1", "U+FBC2", "U+FE00",
     "U+FE01", "U+FE02", "U+FE03", "U+FE04", "U+FE05", "U+FE06", "U+FE07",
     "U+FE08", "U+FE09", "U+FE0A", "U+FE0B", "U+FE0C", "U+FE0D", "U+FE0E",
     "U+FE0F", "U+FE13", "U+FE20", "U+FE21", "U+FE22", "U+FE23", "U+FE24",
     "U+FE25", "U+FE26", "U+FE27", "U+FE28", "U+FE29", "U+FE2A", "U+FE2B",
     "U+FE2C", "U+FE2D", "U+FE2E", "U+FE2F", "U+FE52", "U+FE55", BOM,
     "U+FF07", "U+FF0E", "U+FF1A", "U+FF3E", "U+FF40", "U+FF70", "U+FF9E",
     "U+FF9F", "U+FFE3", "U+FFF9", "U+FFFA", "U+FFFB"}

\* the case-ignorable characters of two code units
AstralCaseIgnorable ==
    {<<"U+D800", lo>> : lo \in
        {"U+DDFD", "U+DEE0", "U+DF76", "U+DF77", "U+DF78", "U+DF79",
         "U+DF7A"}}
    \cup
    {<<"U+D801", lo>> : lo \in
        {"U+DF80", "U+DF81", "U+DF82", "U+DF83", "U+DF84", "U+DF85", "U+DF87",
         "U+DF88", "U+DF89", "U+DF8A", "U+DF8B", "U+DF8C", "U+DF8D", "U+DF8E",
         "U+DF8F", "U+DF90", "U+DF91", "U+DF92", "U+DF93", "U+DF94", "U+DF95",
         "U+DF96", "U+DF97", "U+DF98", "U+DF99", "U+DF9A", "U+DF9B", "U+DF9C",
         "U+DF9D", "U+DF9E", "U+DF9F", "U+DFA0", "U+DFA1", "U+DFA2", "U+DFA3",
         "U+DFA4", "U+DFA5", "U+DFA6", "U+DFA7", "U+DFA8", "U+DFA9", "U+DFAA",
         "U+DFAB", "U+DFAC", "U+DFAD", "U+DFAE", "U+DFAF", "U+DFB0", "U+DFB2",
         "U+DFB3", "U+DFB4", "U+DFB5", "U+DFB6", "U+DFB7", "U+DFB8", "U+DFB9",
         "U+DFBA"}}
    \cup
    {<<"U+D802", lo>> : lo \in
        {"U+DE01", "U+DE02", "U+DE03", "U+DE05", "U+DE06", "U+DE0C", "U+DE0D",
         "U+DE0E", "U+DE0F", "U+DE38", "U+DE39", "U+DE3A", "U+DE3F", "U+DEE5",
         "U+DEE6"}}
    \cup
    {<<"U+D803", lo>> : lo \in
        {"U+DD24", "U+DD25", "U+DD26", "U+DD27", "U+DD4E", "U+DD69", "U+DD6A",
         "U+DD6B", "U+DD6C", "U+DD6D", "U+DD6F", "U+DEAB", "U+DEAC", "U+DEC5",
         "U+DEFA", "U+DEFB", "U+DEFC", "U+DEFD", "U+DEFE", "U+DEFF", "U+DF46",
         "U+DF47", "U+DF48", "U+DF49", "U+DF4A", "U+DF4B", "U+DF4C", "U+DF4D",
         "U+DF4E", "U+DF4F", "U+DF50", "U+DF82", "U+DF83", "U+DF84",
         "U+DF85"}}
    \cup
    {<<"U+D804", lo>> : lo \in
        {"U+DC01", "U+DC38", "U+DC39", "U+DC3A", "U+DC3B", "U+DC3C", "U+DC3D",
         "U+DC3E", "U+DC3F", "U+DC40", "U+DC41", "U+DC42", "U+DC43", "U+DC44",
         "U+DC45", "U+DC46", "U+DC70", "U+DC73", "U+DC74", "U+DC7F", "U+DC80",
         "U+DC81", "U+DCB3", "U+DCB4", "U+DCB5", "U+DCB6", "U+DCB9", "U+DCBA",
         "U+DCBD", "U+DCC2", "U+DCCD", "U+DD00", "U+DD01", "U+DD02", "U+DD27",
         "U+DD28", "U+DD29", "U+DD2A", "U+DD2B", "U+DD2D", "U+DD2E", "U+DD2F",
         "U+DD30", "U+DD31", "U+DD32", "U+DD33", "U+DD34", "U+DD73", "U+DD80",
         "U+DD81", "U+DDB6", "U+DDB7", "U+DDB8", "U+DDB9", "U+DDBA", "U+DDBB",
         "U+DDBC", "U+DDBD", "U+DDBE", "U+DDC9", "U+DDCA", "U+DDCB", "U+DDCC",
         "U+DDCF", "U+DE2F", "U+DE30", "U+DE31", "U+DE34", "U+DE36", "U+DE37",
         "U+DE3E", "U+DE41", "U+DEDF", "U+DEE3", "U+DEE4", "U+DEE5", "U+DEE6",
         "U+DEE7", "U+DEE8", "U+DEE9", "U+DEEA", "U+DF00", "U+DF01", "U+DF3B",
         "U+DF3C", "U+DF40", "U+DF66", "U+DF67", "U+DF68", "U+DF69", "U+DF6A",
         "U+DF6B", "U+DF6C", "U+DF70", "U+DF71", "U+DF72", "U+DF73", "U+DF74",
         "U+DFBB", "U+DFBC", "U+DFBD", "U+DFBE", "U+DFBF", "U+DFC0", "U+DFCE",
         "U+DFD0", "U+DFD2", "U+DFE1", "U+DFE2"}}
    \cup
    {<<"U+D805", lo>> : lo \in
        {"U+DC38", "U+DC39", "U+DC3A", "U+DC3B", "U+DC3C", "U+DC3D", "U+DC3E",
         "U+DC3F", "U+DC42", "U+DC43", "U+DC44", "U+DC46", "U+DC5E", "U+DCB3",
         "U+DCB4", "U+DCB5", "U+DCB6", "U+DCB7", "U+DCB8", "U+DCBA", "U+DCBF",
         "U+DCC0", "U+DCC2", "U+DCC3", "U+DDB2", "U+DDB3", "U+DDB4", "U+DDB5",
         "U+DDBC", "U+DDBD", "U+DDBF", "U+DDC0", "U+DDDC", "U+DDDD", "U+DE33",
         "U+DE34", "U+DE35", "U+DE36", "U+DE37", "U+DE38", "U+DE39", "U+DE3A",
         "U+DE3D", "U+DE3F", "U+DE40", "U+DEAB", "U+DEAD", "U+DEB0", "U+DEB1",
         "U+DEB2", "U+DEB3", "U+DEB4", "U+DEB5", "U+DEB7", "U+DF1D", "U+DF1F",
         "U+DF22", "U+DF23", "U+DF24", "U+DF25", "U+DF27", "U+DF28", "U+DF29",
         "U+DF2A", "U+DF2B"}}
    \cup
    {<<"U+D806", lo>> : lo \in
        {"U+DC2F", "U+DC30", "U+DC31", "U+DC32", "U+DC33", "U+DC34", "U+DC35",
         "U+DC36", "U+DC37", "U+DC39", "U+DC3A", "U+DD3B", "U+DD3C", "U+DD3E",
         "U+DD43", "U+DDD4", "U+DDD5", "U+DDD6", "U+DDD7", "U+DDDA", "U+DDDB",
         "U+DDE0", "U+DE01", "U+DE02", "U+DE03", "U+DE04", "U+DE05", "U+DE06",
         "U+DE07", "U+DE08", "U+DE09", "U+DE0A", "U+DE33", "U+DE34", "U+DE35",
         "U+DE36", "U+DE37", "U+DE38", "U+DE3B", "U+DE3C", "U+DE3D", "U+DE3E",
         "U+DE47", "U+DE51", "U+DE52", "U+DE53", "U+DE54", "U+DE55", "U+DE56",
         "U+DE59", "U+DE5A", "U+DE5B", "U+DE8A", "U+DE8B", "U+DE8C", "U+DE8D",
         "U+DE8E", "U+DE8F", "U+DE90", "U+DE91", "U+DE92", "U+DE93", "U+DE94",
         "U+DE95", "U+DE96", "U+DE98", "U+DE99", "U+DF60", "U+DF62", "U+DF63",
         "U+DF64", "U+DF66"}}
    \cup
    {<<"U+D807", lo>> : lo \in
        {"U+DC30", "U+DC31", "U+DC32", "U+DC33", "U+DC34", "U+DC35", "U+DC36",
         "U+DC38", "U+DC39", "U+DC3A", "U+DC3B", "U+DC3C", "U+DC3D", "U+DC3F",
         "U+DC92", "U+DC93", "U+DC94", "U+DC95", "U+DC96", "U+DC97", "U+DC98",
         "U+DC99", "U+DC9A", "U+DC9B", "U+DC9C", "U+DC9D", "U+DC9E", "U+DC9F",
         "U+DCA0", "U+DCA1", "U+DCA2", "U+DCA3", "U+DCA4", "U+DCA5", "U+DCA6",
         "U+DCA7", "U+DCAA", "U+DCAB", "U+DCAC", "U+DCAD", "U+DCAE", "U+DCAF",
         "U+DCB0", "U+DCB2", "U+DCB3", "U+DCB5", "U+DCB6", "U+DD31", "U+DD32",
         "U+DD33", "U+DD34", "U+DD35", "U+DD36", "U+DD3A", "U+DD3C", "U+DD3D",
         "U+DD3F", "U+DD40", "U+DD41", "U+DD42", "U+DD43", "U+DD44", "U+DD45",
         "U+DD47", "U+DD90", "U+DD91", "U+DD95", "U+DD97", "U+DDD9", "U+DEF3",
         "U+DEF4", "U+DF00", "U+DF01", "U+DF36", "U+DF37", "U+DF38", "U+DF39",
         "U+DF3A", "U+DF40", "U+DF42", "U+DF5A"}}
    \cup
    {<<"U+D80D", lo>> : lo \in
        {"U+DC30", "U+DC31", "U+DC32", "U+DC33", "U+DC34", "U+DC35", "U+DC36",
         "U+DC37", "U+DC38", "U+DC39", "U+DC3A", "U+DC3B", "U+DC3C", "U+DC3D",
         "U+DC3E", "U+DC3F", "U+DC40", "U+DC47", "U+DC48", "U+DC49", "U+DC4A",
         "U+DC4B", "U+DC4C", "U+DC4D", "U+DC4E", "U+DC4F", "U+DC50", "U+DC51",
         "U+DC52", "U+DC53", "U+DC54", "U+DC55"}}
    \cup
    {<<"U+D818", lo>> : lo \in
        {"U+DD1E", "U+DD1F", "U+DD20", "U+DD21", "U+DD22", "U+DD23", "U+DD24",
         "U+DD25", "U+DD26", "U+DD27", "U+DD28", "U+DD29", "U+DD2D", "U+DD2E",
         "U+DD2F"}}
    \cup
    {<<"U+D81A", lo>> : lo \in
        {"U+DEF0", "U+DEF1", "U+DEF2", "U+DEF3", "U+DEF4", "U+DF30", "U+DF31",
         "U+DF32", "U+DF33", "U+DF34", "U+DF35", "U+DF36", "U+DF40", "U+DF41",
         "U+DF42", "U+DF43"}}
    \cup
    {<<"U+D81B", lo>> : lo \in
        {"U+DD40", "U+DD41", "U+DD42", "U+DD6B", "U+DD6C", "U+DF4F", "U+DF8F",
         "U+DF90", "U+DF91", "U+DF92", "U+DF93", "U+DF94", "U+DF95", "U+DF96",
         "U+DF97", "U+DF98", "U+DF99", "U+DF9A", "U+DF9B", "U+DF9C", "U+DF9D",
         "U+DF9E", "U+DF9F", "U+DFE0", "U+DFE1", "U+DFE3", "U+DFE4", "U+DFF2",
         "U+DFF3"}}
    \cup
    {<<"U+D82B", lo>> : lo \in
        {"U+DFF0", "U+DFF1", "U+DFF2", "U+DFF3", "U+DFF5", "U+DFF6", "U+DFF7",
         "U+DFF8", "U+DFF9", "U+DFFA", "U+DFFB", "U+DFFD", "U+DFFE"}}
    \cup
    {<<"U+D82F", lo>> : lo \in
        {"U+DC9D", "U+DC9E", "U+DCA0", "U+DCA1", "U+DCA2", "U+DCA3"}}
    \cup
    {<<"U+D833", lo>> : lo \in
        {"U+DF00", "U+DF01", "U+DF02", "U+DF03", "U+DF04", "U+DF05", "U+DF06",
         "U+DF07", "U+DF08", "U+DF09", "U+DF0A", "U+DF0B", "U+DF0C", "U+DF0D",
         "U+DF0E", "U+DF0F", "U+DF10", "U+DF11", "U+DF12", "U+DF13", "U+DF14",
         "U+DF15", "U+DF16", "U+DF17", "U+DF18", "U+DF19", "U+DF1A", "U+DF1B",
         "U+DF1C", "U+DF1D", "U+DF1E", "U+DF1F", "U+DF20", "U+DF21", "U+DF22",
         "U+DF23", "U+DF24", "U+DF25", "U+DF26", "U+DF27", "U+DF28", "U+DF29",
         "U+DF2A", "U+DF2B", "U+DF2C", "U+DF2D", "U+DF30", "U+DF31", "U+DF32",
         "U+DF33", "U+DF34", "U+DF35", "U+DF36", "U+DF37", "U+DF38", "U+DF39",
         "U+DF3A", "U+DF3B", "U+DF3C", "U+DF3D", "U+DF3E", "U+DF3F", "U+DF40",
         "U+DF41", "U+DF42", "U+DF43", "U+DF44", "U+DF45", "U+DF46"}}
    \cup
    {<<"U+D834", lo>> : lo \in
        {"U+DD67", "U+DD68", "U+DD69", "U+DD73", "U+DD74", "U+DD75", "U+DD76",
         "U+DD77", "U+DD78", "U+DD79", "U+DD7A", "U+DD7B", "U+DD7C", "U+DD7D",
         "U+DD7E", "U+DD7F", "U+DD80", "U+DD81", "U+DD82", "U+DD85", "U+DD86",
         "U+DD87", "U+DD88", "U+DD89", "U+DD8A", "U+DD8B", "U+DDAA", "U+DDAB",
         "U+DDAC", "U+DDAD", "U+DE42", "U+DE43", "U+DE44"}}
    \cup
    {<<"U+D836", lo>> : lo \in
        {"U+DE00", "U+DE01", "U+DE02", "U+DE03", "U+DE04", "U+DE05", "U+DE06",
         "U+DE07", "U+DE08", "U+DE09", "U+DE0A", "U+DE0B", "U+DE0C", "U+DE0D",
         "U+DE0E", "U+DE0F", "U+DE10", "U+DE11", "U+DE12", "U+DE13", "U+DE14",
         "U+DE15", "U+DE16", "U+DE17", "U+DE18", "U+DE19", "U+DE1A", "U+DE1B",
         "U+DE1C", "U+DE1D", "U+DE1E", "U+DE1F", "U+DE20", "U+DE21", "U+DE22",
         "U+DE23", "U+DE24", "U+DE25", "U+DE26", "U+DE27", "U+DE28", "U+DE29",
         "U+DE2A", "U+DE2B", "U+DE2C", "U+DE2D", "U+DE2E", "U+DE2F", "U+DE30",
         "U+DE31", "U+DE32", "U+DE33", "U+DE34", "U+DE35", "U+DE36", "U+DE3B",
         "U+DE3C", "U+DE3D", "U+DE3E", "U+DE3F", "U+DE40", "U+DE41", "U+DE42",
         "U+DE43", "U+DE44", "U+DE45", "U+DE46", "U+DE47", "U+DE48", "U+DE49",
         "U+DE4A", "U+DE4B", "U+DE4C", "U+DE4D", "U+DE4E", "U+DE4F", "U+DE50",
         "U+DE51", "U+DE52", "U+DE53", "U+DE54", "U+DE55", "U+DE56", "U+DE57",
         "U+DE58", "U+DE59", "U+DE5A", "U+DE5B", "U+DE5C", "U+DE5D", "U+DE5E",
         "U+DE5F", "U+DE60", "U+DE61", "U+DE62", "U+DE63", "U+DE64", "U+DE65",
         "U+DE66", "U+DE67", "U+DE68", "U+DE69", "U+DE6A", "U+DE6B", "U+DE6C",
         "U+DE75", "U+DE84", "U+DE9B", "U+DE9C", "U+DE9D", "U+DE9E", "U+DE9F",
         "U+DEA1", "U+DEA2", "U+DEA3", "U+DEA4", "U+DEA5", "U+DEA6", "U+DEA7",
         "U+DEA8", "U+DEA9", "U+DEAA", "U+DEAB", "U+DEAC", "U+DEAD", "U+DEAE",
         "U+DEAF"}}
    \cup
    {<<"U+D838", lo>> : lo \in
        {"U+DC00", "U+DC01", "U+DC02", "U+DC03", "U+DC04", "U+DC05", "U+DC06",
         "U+DC08", "U+DC09", "U+DC0A", "U+DC0B", "U+DC0C", "U+DC0D", "U+DC0E",
         "U+DC0F", "U+DC10", "U+DC11", "U+DC12", "U+DC13", "U+DC14", "U+DC15",
         "U+DC16", "U+DC17", "U+DC18", "U+DC1B", "U+DC1C", "U+DC1D", "U+DC1E",
         "U+DC1F", "U+DC20", "U+DC21", "U+DC23", "U+DC24", "U+DC26", "U+DC27",
         "U+DC28", "U+DC29", "U+DC2A", "U+DC30", "U+DC31", "U+DC32", "U+DC33",
         "U+DC34", "U+DC35", "U+DC36", "U+DC37", "U+DC38", "U+DC39", "U+DC3A",
         "U+DC3B", "U+DC3C", "U+DC3D", "U+DC3E", "U+DC3F", "U+DC40", "U+DC41",
         "U+DC42", "U+DC43", "U+DC44", "U+DC45", "U+DC46", "U+DC47", "U+DC48",
         "U+DC49", "U+DC4A", "U+DC4B", "U+DC4C", "U+DC4D", "U+DC4E", "U+DC4F",
         "U+DC50", "U+DC51", "U+DC52", "U+DC53", "U+DC54", "U+DC55", "U+DC56",
         "U+DC57", "U+DC58", "U+DC59", "U+DC5A", "U+DC5B", "U+DC5C", "U+DC5D",
         "U+DC5E", "U+DC5F", "U+DC60", "U+DC61", "U+DC62", "U+DC63", "U+DC64",
         "U+DC65", "U+DC66", "U+DC67", "U+DC68", "U+DC69", "U+DC6A", "U+DC6B",
         "U+DC6C", "U+DC6D", "U+DC8F", "U+DD30", "U+DD31", "U+DD32", "U+DD33",
         "U+DD34", "U+DD35", "U+DD36", "U+DD37", "U+DD38", "U+DD39", "U+DD3A",
         "U+DD3B", "U+DD3C", "U+DD3D", "U+DEAE", "U+DEEC", "U+DEED", "U+DEEE",
         "U+DEEF"}}
    \cup
    {<<"U+D839", lo>> : lo \in
        {"U+DCEB", "U+DCEC", "U+DCED", "U+DCEE", "U+DCEF", "U+DDEE", "U+DDEF",
         "U+DEE3", "U+DEE6", "U+DEEE", "U+DEEF", "U+DEF5", "U+DEFF"}}
    \cup
    {<<"U+D83A", lo>> : lo \in
        {"U+DCD0", "U+DCD1", "U+DCD2", "U+DCD3", "U+DCD4", "U+DCD5", "U+DCD6",
         "U+DD44", "U+DD45", "U+DD46", "U+DD47", "U+DD48", "U+DD49", "U+DD4A",
         "U+DD4B"}}
    \cup
    {<<"U+D83C", lo>> : lo \in
        {"U+DFFB", "U+DFFC", "U+DFFD", "U+DFFE", "U+DFFF"}}
    \cup
    {<<"U+DB40", lo>> : lo \in
        {"U+DC01", "U+DC20", "U+DC21", "U+DC22", "U+DC23", "U+DC24", "U+DC25",
         "U+DC26", "U+DC27", "U+DC28", "U+DC29", "U+DC2A", "U+DC2B", "U+DC2C",
         "U+DC2D", "U+DC2E", "U+DC2F", "U+DC30", "U+DC31", "U+DC32", "U+DC33",
         "U+DC34", "U+DC35", "U+DC36", "U+DC37", "U+DC38", "U+DC39", "U+DC3A",
         "U+DC3B", "U+DC3C", "U+DC3D", "U+DC3E", "U+DC3F", "U+DC40", "U+DC41",
         "U+DC42", "U+DC43", "U+DC44", "U+DC45", "U+DC46", "U+DC47", "U+DC48",
         "U+DC49", "U+DC4A", "U+DC4B", "U+DC4C", "U+DC4D", "U+DC4E", "U+DC4F",
         "U+DC50", "U+DC51", "U+DC52", "U+DC53", "U+DC54", "U+DC55", "U+DC56",
         "U+DC57", "U+DC58", "U+DC59", "U+DC5A", "U+DC5B", "U+DC5C", "U+DC5D",
         "U+DC5E", "U+DC5F", "U+DC60", "U+DC61", "U+DC62", "U+DC63", "U+DC64",
         "U+DC65", "U+DC66", "U+DC67", "U+DC68", "U+DC69", "U+DC6A", "U+DC6B",
         "U+DC6C", "U+DC6D", "U+DC6E", "U+DC6F", "U+DC70", "U+DC71", "U+DC72",
         "U+DC73", "U+DC74", "U+DC75", "U+DC76", "U+DC77", "U+DC78", "U+DC79",
         "U+DC7A", "U+DC7B", "U+DC7C", "U+DC7D", "U+DC7E", "U+DC7F", "U+DD00",
         "U+DD01", "U+DD02", "U+DD03", "U+DD04", "U+DD05", "U+DD06", "U+DD07",
         "U+DD08", "U+DD09", "U+DD0A", "U+DD0B", "U+DD0C", "U+DD0D", "U+DD0E",
         "U+DD0F", "U+DD10", "U+DD11", "U+DD12", "U+DD13", "U+DD14", "U+DD15",
         "U+DD16", "U+DD17", "U+DD18", "U+DD19", "U+DD1A", "U+DD1B", "U+DD1C",
         "U+DD1D", "U+DD1E", "U+DD1F", "U+DD20", "U+DD21", "U+DD22", "U+DD23",
         "U+DD24", "U+DD25", "U+DD26", "U+DD27", "U+DD28", "U+DD29", "U+DD2A",
         "U+DD2B", "U+DD2C", "U+DD2D", "U+DD2E", "U+DD2F", "U+DD30", "U+DD31",
         "U+DD32", "U+DD33", "U+DD34", "U+DD35", "U+DD36", "U+DD37", "U+DD38",
         "U+DD39", "U+DD3A", "U+DD3B", "U+DD3C", "U+DD3D", "U+DD3E", "U+DD3F",
         "U+DD40", "U+DD41", "U+DD42", "U+DD43", "U+DD44", "U+DD45", "U+DD46",
         "U+DD47", "U+DD48", "U+DD49", "U+DD4A", "U+DD4B", "U+DD4C", "U+DD4D",
         "U+DD4E", "U+DD4F", "U+DD50", "U+DD51", "U+DD52", "U+DD53", "U+DD54",
         "U+DD55", "U+DD56", "U+DD57", "U+DD58", "U+DD59", "U+DD5A", "U+DD5B",
         "U+DD5C", "U+DD5D", "U+DD5E", "U+DD5F", "U+DD60", "U+DD61", "U+DD62",
         "U+DD63", "U+DD64", "U+DD65", "U+DD66", "U+DD67", "U+DD68", "U+DD69",
         "U+DD6A", "U+DD6B", "U+DD6C", "U+DD6D", "U+DD6E", "U+DD6F", "U+DD70",
         "U+DD71", "U+DD72", "U+DD73", "U+DD74", "U+DD75", "U+DD76", "U+DD77",
         "U+DD78", "U+DD79", "U+DD7A", "U+DD7B", "U+DD7C", "U+DD7D", "U+DD7E",
         "U+DD7F", "U+DD80", "U+DD81", "U+DD82", "U+DD83", "U+DD84", "U+DD85",
         "U+DD86", "U+DD87", "U+DD88", "U+DD89", "U+DD8A", "U+DD8B", "U+DD8C",
         "U+DD8D", "U+DD8E", "U+DD8F", "U+DD90", "U+DD91", "U+DD92", "U+DD93",
         "U+DD94", "U+DD95", "U+DD96", "U+DD97", "U+DD98", "U+DD99", "U+DD9A",
         "U+DD9B", "U+DD9C", "U+DD9D", "U+DD9E", "U+DD9F", "U+DDA0", "U+DDA1",
         "U+DDA2", "U+DDA3", "U+DDA4", "U+DDA5", "U+DDA6", "U+DDA7", "U+DDA8",
         "U+DDA9", "U+DDAA", "U+DDAB", "U+DDAC", "U+DDAD", "U+DDAE", "U+DDAF",
         "U+DDB0", "U+DDB1", "U+DDB2", "U+DDB3", "U+DDB4", "U+DDB5", "U+DDB6",
         "U+DDB7", "U+DDB8", "U+DDB9", "U+DDBA", "U+DDBB", "U+DDBC", "U+DDBD",
         "U+DDBE", "U+DDBF", "U+DDC0", "U+DDC1", "U+DDC2", "U+DDC3", "U+DDC4",
         "U+DDC5", "U+DDC6", "U+DDC7", "U+DDC8", "U+DDC9", "U+DDCA", "U+DDCB",
         "U+DDCC", "U+DDCD", "U+DDCE", "U+DDCF", "U+DDD0", "U+DDD1", "U+DDD2",
         "U+DDD3", "U+DDD4", "U+DDD5", "U+DDD6", "U+DDD7", "U+DDD8", "U+DDD9",
         "U+DDDA", "U+DDDB", "U+DDDC", "U+DDDD", "U+DDDE", "U+DDDF", "U+DDE0",
         "U+DDE1", "U+DDE2", "U+DDE3", "U+DDE4", "U+DDE5", "U+DDE6", "U+DDE7",
         "U+DDE8", "U+DDE9", "U+DDEA", "U+DDEB", "U+DDEC", "U+DDED", "U+DDEE",
         "U+DDEF"}}

UpperBeyondAsciiSet == {UpperBeyondAscii[i] : i \in 1..Len(UpperBeyondAscii)}

LowerOfBeyondAscii ==
    [c \in UpperBeyondAsciiSet |->
        LowerBeyondAscii[CHOOSE i \in 1..Len(UpperBeyondAscii) : UpperBeyondAscii[i] = c]]

\* the capitals of two code units as pairs <<high, low>>
AstralUpperSet ==
    UNION {{<<AstralCapitals[g][1], AstralCapitals[g][2][k]>> :
                k \in 1..Len(AstralCapitals[g][2])} : g \in 1..Len(AstralCapitals)}

\* the low surrogate of the lower case of a capital of two code units (the
\* high surrogate is that of the capital)
AstralLowerOf ==
    [p \in AstralUpperSet |->
        LET g == CHOOSE g \in 1..Len(AstralCapitals) : AstralCapitals[g][1] = p[1]
        IN AstralCapitals[g][3][CHOOSE k \in 1..Len(AstralCapitals[g][2]) :
                                    AstralCapitals[g][2][k] = p[2]]]

\* the characters every text of the sheets is written in: no capital, no
\* surrogate
PlainChars ==
    {LowerChars[i] : i \in 1..26} \cup DigitSet
        \cup {" ", "-", "_", ",", ".", "/", ":", "#", "*", "(", ")", "\"", "\n"}

\* String.prototype.toLowerCase of a character of one code unit (U+0130,
\* whose lower case is two code units, is left to toLowerCase)
ToLowerChar(c) ==
    IF c \in PlainChars THEN c
    ELSE IF c \in UpperSet THEN LowerOf[c]
    ELSE IF c \in UpperBeyondAsciiSet THEN LowerOfBeyondAscii[c]
    ELSE c

CasedLetters == UpperSet \cup {LowerChars[i] : i \in 1..26} \cup CasedBeyondAscii

\* the code unit s[n] belongs to a character of the set: the unit itself, or
\* the surrogate pair it is half of
InCharSet(s, n, units, pairs) ==
    \/ s[n] \in units
    \/ n > 1 /\ <<s[n - 1], s[n]>> \in pairs
    \/ n < Len(s) /\ <<s[n], s[n + 1]>> \in pairs

IsCasedAt(s, n) == InCharSet(s, n, CasedLetters, AstralCased)

IsCaseIgnorableAt(s, n) == InCharSet(s, n, CaseIgnorable, AstralCaseIgnorable)

\* Unicode Final_Sigma: going back over the case-ignorable characters there
\* is a cased letter, going on over them there is none
FinalSigma(s, i) ==
    /\ \E j \in 1..(i - 1) :
          /\ IsCasedAt(s, j)
          /\ \A n \in (j + 1)..(i - 1) : IsCaseIgnorableAt(s, n)
    /\ ~\E j \in (i + 1)..Len(s) :
          /\ IsCasedAt(s, j)
          /\ \A n \in (i + 1)..(j - 1) : IsCaseIgnorableAt(s, n)

\* the lower case of the code unit s[i] in its place
LowerUnitAt(s, i) ==
    IF s[i] \in PlainChars THEN s[i]
    ELSE IF s[i] \in UpperSet THEN LowerOf[s[i]]
    ELSE IF s[i] = "Σ" THEN (IF FinalSigma(s, i) THEN "ς" ELSE "σ")
    ELSE IF i > 1 /\ <<s[i - 1], s[i]>> \in AstralUpperSet
         THEN AstralLowerOf[<<s[i - 1], s[i]>>]
    ELSE ToLowerChar(s[i])

\* U+0130 becomes i and U+0307
RECURSIVE LowerDottedI(_)
LowerDottedI(s) ==
    IF s = <<>> THEN <<>>
    ELSE IF Head(s) = "U+0130" THEN <<"i", "U+0307">> \o LowerDottedI(Tail(s))
    ELSE <<Head(s)>> \o LowerDottedI(Tail(s))

\* String.prototype.toLowerCase
toLowerCase(s) ==
    IF \E i \in 1..Len(s) : s[i] = "U+0130"
    THEN LowerDottedI([i \in 1..Len(s) |-> LowerUnitAt(s, i)])
    ELSE [i \in 1..Len(s) |-> LowerUnitAt(s, i)]

(***************************************************************************)
(* Values of spreadsheet cells (`unknown` in the source).                  *)
(*   [t |-> "str", s |-> <characters>]                                     *)
(*   [t |-> "num", whole |-> integer part, min |-> minutes of the day]     *)
(*   [t |-> "undef"]                                                       *)
(***************************************************************************)
Str(s) == [t |-> "str", s |-> s]
Num(w, f) == [t |-> "num", whole |-> w, min |-> f]
Undefined == [t |-> "undef"]

\* JavaScript !value
Falsy(v) ==
    \/ v.t = "undef"
    \/ v.t = "str" /\ v.s = <<>>
    \/ v.t = "num" /\ v.whole = 0 /\ v.min = 0

(***************************************************************************)
(* The number of a cell as a double.  Num(w, m) is the value JavaScript    *)
(* computes for w + m / 1440: the quotient is rounded to a double, then   *)
(* the sum.  Since 1440 = 2^5 * 45, the distance of the double from the   *)
(* exact value is a number of 45ths of its last binary place.             *)
(***************************************************************************)
\* floor(log2(n)) for n >= 1
RECURSIVE Log2(_)
Log2(n) == IF n < 2 THEN 0 ELSE 1 + Log2(n \div 2)

RECURSIVE Pow2(_)
Pow2(k) == IF k = 0 THEN 1 ELSE 2 * Pow2(k - 1)

RECURSIVE Pow10(_)
Pow10(k) == IF k = 0 THEN 1 ELSE 10 * Pow10(k - 1)

\* 2^k modulo n
RECURSIVE Pow2Mod(_, _)
Pow2Mod(k, n) == IF k = 0 THEN 1 ELSE (2 * Pow2Mod(k - 1, n)) % n

\* the double nearest to m / 1440 (0 < m < 1440) has its last binary place
\* at 2^-FractionPlaces(m, 0): 52 places below its leading bit
RECURSIVE FractionPlaces(_, _)
FractionPlaces(m, j) ==
    IF m * Pow2(j) >= 1440 THEN 52 + j ELSE FractionPlaces(m, j + 1)

\* the last binary place of the double v
NumberPlaces(v) ==
    IF v.whole >= 1 THEN 52 - Log2(v.whole) ELSE FractionPlaces(v.min, 0)

\* the error of rounding m / 1440 to nearest at 2^-places, in 45ths of
\* that place; negative when the rounded value lies below
NearestError45(m, places) ==
    LET r == (m * Pow2Mod(places - 5, 45)) % 45
    IN IF r <= 22 THEN 0 - r ELSE 45 - r

\* the distance of the double v from whole + min / 1440, in 45ths of its
\* last place: the sum rounds the already rounded quotient, to nearest and
\* to the even neighbour on a tie
SumError45(m, q, p) ==
    LET c1 == NearestError45(m, q)
        r == (m * Pow2Mod(p - 5, 45)) % 45
        balance == IF q - p > 6 THEN 2 * r - 45
                   ELSE Pow2(q - p) * (2 * r - 45) + 2 * c1
        odd == (m * Pow2Mod(p - 5, 90)) % 90 >= 45
    IN IF balance > 0 \/ (balance = 0 /\ odd) THEN 45 - r ELSE 0 - r

RoundingError(v) ==
    IF v.min = 0 THEN 0
    ELSE IF v.whole = 0 THEN NearestError45(v.min, FractionPlaces(v.min, 0))
    ELSE SumError45(v.min, FractionPlaces(v.min, 0), NumberPlaces(v))

\* natural numbers beyond the machine integers: limbs of four decimal
\* digits, the least significant first
BigBase == 10000

RECURSIVE BigTimesCarry(_, _, _)
BigTimesCarry(a, n, carry) ==
    IF a = <<>> THEN (IF carry = 0 THEN <<>> ELSE <<carry>>)
    ELSE LET x == Head(a) * n + carry
         IN <<x % BigBase>> \o BigTimesCarry(Tail(a), n, x \div BigBase)

\* a * n for 1 <= n < BigBase
BigTimes(a, n) == BigTimesCarry(a, n, 0)

\* 2^e and 5^e, by factors that fit a limb (2^13 = 8192, 5^5 = 3125)
RECURSIVE BigPow2(_)
BigPow2(e) == IF e < 13 THEN <<Pow2(e)>> ELSE BigTimes(BigPow2(e - 13), 8192)

RECURSIVE BigPow5(_)
BigPow5(e) ==
    IF e = 0 THEN <<1>>
    ELSE IF e < 5 THEN BigTimes(BigPow5(e - 1), 5)
    ELSE BigTimes(BigPow5(e - 5), 3125)

RECURSIVE BigLess(_, _)
BigLess(a, b) ==
    IF Len(a) # Len(b) THEN Len(a) < Len(b)
    ELSE IF a = <<>> THEN FALSE
    ELSE IF a[Len(a)] # b[Len(b)] THEN a[Len(a)] < b[Len(b)]
    ELSE BigLess(SubSeq(a, 1, Len(a) - 1), SubSeq(b, 1, Len(b) - 1))

\* a * P < b * Q for machine integers a, b and big naturals P, Q > 0
SignedLess(a, P, b, Q) ==
    IF a < 0 /\ b >= 0 THEN TRUE
    ELSE IF a >= 0 /\ b <= 0 THEN FALSE
    ELSE IF a = 0 THEN TRUE
    ELSE IF a > 0 THEN BigLess(BigTimes(P, a), BigTimes(Q, b))
    ELSE BigLess(BigTimes(Q, 0 - b), BigTimes(P, 0 - a))

\* the first k decimals of m / 1440, as digits: five decimals, then the
\* digit (4 * m) % 9 for ever (10^5 / 1440 = 625 / 9)
FractionDigits(m, k) ==
    [i \in 1..k |-> IF i <= 5 THEN (((m * 100000) \div 1440) \div Pow10(5 - i)) % 10
                    ELSE (4 * m) % 9]

\* the digits d as a number, plus the small integer t
RECURSIVE AddToDigits(_, _)
AddToDigits(d, t) ==
    IF t = 0 \/ d = <<>> THEN d
    ELSE LET x == d[Len(d)] + t
             carry == IF x > 9 THEN 1 ELSE IF x < 0 THEN 0 - 1 ELSE 0
         IN Append(AddToDigits(SubSeq(d, 1, Len(d) - 1), carry), x - 10 * carry)

RECURSIVE DropTrailingZeros(_)
DropTrailingZeros(d) ==
    IF d # <<>> /\ d[Len(d)] = 0 THEN DropTrailingZeros(SubSeq(d, 1, Len(d) - 1)) ELSE d

\* the integers that can be nearest to the k-th decimal place of a double
\* whose k - 1 decimals do not identify it
NearbyIntegers == (0 - 6)..7

\* Number::toString, the decimals: the fewest decimals k >= 5 for which a
\* decimal with k decimals reads back as the double v, and of those the
\* decimal nearest to v.  With s = 10^k / 2^p, the double scaled by 10^k lies
\* y = rho / 9 + c * s / 45 above the truncated exact value; the nearest
\* integer t to y is accepted when |t - y| < s / 2.  P = 2^(p - k), Q = 5^k.
NearestToDouble(c, rho, P, Q) ==
    CHOOSE t \in NearbyIntegers :
        /\ ~SignedLess(2 * c, Q, 90 * t - 45 - 10 * rho, P)
        /\ SignedLess(2 * c, Q, 90 * t + 45 - 10 * rho, P)

ReadsBack(c, rho, t, P, Q) ==
    /\ SignedLess(90 * t - 10 * rho, P, 2 * c + 45, Q)
    /\ SignedLess(2 * c - 45, Q, 90 * t - 10 * rho, P)

\* the k decimals when k decimals are enough, as <<digits>>, or <<>>
DecimalsAt(m, c, k, P, Q) ==
    CHOOSE r \in {IF ReadsBack(c, (4 * m) % 9, t, P, Q)
                  THEN <<AddToDigits(FractionDigits(m, k), t)>>
                  ELSE <<>> : t \in {NearestToDouble(c, (4 * m) % 9, P, Q)}} : TRUE

RECURSIVE ShortestDecimals(_, _, _, _)
ShortestDecimals(m, c, p, k) ==
    CHOOSE d \in {IF found # <<>> THEN found[1] ELSE ShortestDecimals(m, c, p, k + 1) :
                  found \in {DecimalsAt(m, c, k, P, Q) :
                                 P \in {BigPow2(p - k)}, Q \in {BigPow5(k)}}} : TRUE

DigitsToChars(d) == [i \in 1..Len(d) |-> DigitChars[d[i] + 1]]

\* Number::toString of a cell's number (not negative, below 10^21)
NumberToString(v) ==
    IF v.min = 0 THEN NatToStr(v.whole)
    ELSE NatToStr(v.whole) \o <<".">>
         \o CHOOSE s \in {DigitsToChars(d) :
                d \in {DropTrailingZeros(ShortestDecimals(v.min, RoundingError(v),
                                                          NumberPlaces(v), 5))}} : TRUE

(***************************************************************************)
(* Calendar arithmetic of the JavaScript Date object.                      *)
(***************************************************************************)
Null == [null |-> TRUE]

Day(y, m, d) == [y |-> y, m |-> m, d |-> d]

IsLeap(y) == (y % 400 = 0) \/ (y % 4 = 0 /\ y % 100 # 0)

DaysInMonth(y, m) ==
    IF m = 2 THEN (IF IsLeap(y) THEN 29 ELSE 28)
    ELSE IF m \in {4, 6, 9, 11} THEN 30 ELSE 31

\* days from 1970-01-01 to the civil day y-m-d (m in 1..12, any d)
DaysFromCivil(y, m, d) ==
    LET yy == IF m <= 2 THEN y - 1 ELSE y
        era == yy \div 400
        yoe == yy - era * 400
        mp == IF m > 2 THEN m - 3 ELSE m + 9
        doy == (153 * mp + 2) \div 5 + d - 1
        doe == yoe * 365 + yoe \div 4 - yoe \div 100 + doy
    IN era * 146097 + doe - 719468

\* the civil day that lies n days after 1970-01-01
CivilFromDays(n) ==
    LET z == n + 719468
        era == z \div 146097
        doe == z - era * 146097
        yoe == (doe - doe \div 1460 + doe \div 36524 - doe \div 146096) \div 365
        doy == doe - (365 * yoe + yoe \div 4 - yoe \div 100)
        mp == (5 * doy + 2) \div 153
        d == doy - (153 * mp + 2) \div 5 + 1
        m == IF mp < 10 THEN mp + 3 ELSE mp - 9
    IN Day(yoe + era * 400 + (IF m <= 2 THEN 1 ELSE 0), m, d)

\* new Date(year, monthIndex, day): a day beyond the month rolls over
NewDate(year, monthIndex, day) ==
    CivilFromDays(DaysFromCivil(year, monthIndex + 1, 1) + day - 1)

\* the local calendar day of the instant `minutes` after the epoch (UTC)
LocalDayOfInstant(minutes, offset) ==
    CivilFromDays((minutes + offset) \div 1440)

(***************************************************************************)
(* Date normalization.                                                     *)
(***************************************************************************)
SerialEpoch == 25569
SerialLow == 25000
SerialHigh == 100000

\* typeof value === 'number' && value > 25000 && value < 100000
InSerialWindow(v) ==
    /\ v.t = "num"
    /\ (v.whole > SerialLow \/ (v.whole = SerialLow /\ v.min > 0))
    /\ v.whole < SerialHigh

\* mutant: every number taken for a serial date
isExcelDate_AnyNumber(v) == v.t = "num"

isExcelDate(v) == FALSE

\* startOfDay(excelDateToJSDate(serial)): setHours keeps the local day of
\* the UTC midnight of floor(serial)
excelDateToJSDate(v, offset) ==
    LocalDayOfInstant((v.whole - SerialEpoch) * 1440, offset)

\* (serial - 25569) * 86400 * 1000 in double arithmetic lies below the exact
\* number of milliseconds: the subtraction is exact, the product by 86400
\* carries the error of the serial (15 * 2^7 / 2^places per 45th) and is
\* rounded to the last place of 60 * minutes, the product by 1000 keeps it
MillisFallShort(minutes, c, p) ==
    LET g == 59 - p - (2 + Log2(15 * minutes))
    IN /\ minutes > 0
       /\ c < 0
       /\ (g >= 0 \/ 15 * (0 - c) > Pow2(0 - g - 1))

SerialMillisFallShort(v) ==
    MillisFallShort((v.whole - SerialEpoch) * 1440 + v.min, RoundingError(v), NumberPlaces(v))

\* the minute after the epoch that holds the instant of
\* new Date((serial - 25569) * 86400 * 1000): the Date constructor truncates
\* the milliseconds, one millisecond short of a whole minute is the minute
\* before
SerialInstantMinute(v) ==
    (v.whole - SerialEpoch) * 1440 + v.min - (IF SerialMillisFallShort(v) THEN 1 ELSE 0)

\* the local day of new Date((serial - 25569) * 86400 * 1000), as DD-MM-YY
convertExcelSerialToDDMMYY(v, offset) ==
    CHOOSE s \in {Pad2(jsDate.d) \o <<"-">> \o Pad2(jsDate.m) \o <<"-">> \o Pad2(jsDate.y % 100) :
                  jsDate \in {LocalDayOfInstant(SerialInstantMinute(v), offset)}} : TRUE

\* /^(\d{2})-(\d{2})-(\d{2})$/
MatchesDDMMYY(s) ==
    /\ Len(s) = 8
    /\ \A i \in {1, 2, 4, 5, 7, 8} : IsDigit(s[i])
    /\ s[3] = "-" /\ s[6] = "-"

\* mutant: the first field read as the month (US-style transposition)
parseStrictDDMMYY_Transposed(s) ==
    IF ~MatchesDDMMYY(s) THEN Null
    ELSE LET mm == DigitsToNat(SubSeq(s, 1, 2))
             dd == DigitsToNat(SubSeq(s, 4, 5))
             yy == DigitsToNat(SubSeq(s, 7, 8))
             year == 2000 + yy
             d == NewDate(year, mm - 1, dd)
         IN IF mm < 1 \/ mm > 12 THEN Null
            ELSE IF dd < 1 \/ dd > 31 THEN Null
            ELSE IF d.y # year \/ d.m - 1 # mm - 1 \/ d.d # dd THEN Null
            ELSE d

\* mutant: the constructed date is not re-validated field by field
parseStrictDDMMYY_NoRevalidation(s) ==
    IF ~MatchesDDMMYY(s) THEN Null
    ELSE LET dd == DigitsToNat(SubSeq(s, 1, 2))
             mm == DigitsToNat(SubSeq(s, 4, 5))
             yy == DigitsToNat(SubSeq(s, 7, 8))
             year == 2000 + yy
             d == NewDate(year, mm - 1, dd)
         IN IF mm < 1 \/ mm > 12 THEN Null
            ELSE IF dd < 1 \/ dd > 31 THEN Null
            ELSE d

parseStrictDDMMYY(s) ==
    IF ~MatchesDDMMYY(s) THEN Null
    ELSE LET dd == DigitsToNat(SubSeq(s, 1, 2))
             mm == DigitsToNat(SubSeq(s, 4, 5))
             yy == DigitsToNat(SubSeq(s, 7, 8))
             year == 2000 + yy
             d == NewDate(year, mm - 1, dd)
         IN IF mm < 1 \/ mm > 12 THEN Null
            ELSE IF dd < 1 \/ dd > 31 THEN Null
            ELSE IF d.y # year \/ d.m - 1 # mm - 1 \/ d.d # dd THEN Null
            ELSE d

\* /^\d{4}-\d{2}-\d{2}/.test(s) && s.length >= 10
MatchesIsoPrefix(s) ==
    /\ Len(s) >= 10
    /\ \A i \in {1, 2, 3, 4, 6, 7, 9, 10} : IsDigit(s[i])
    /\ s[5] = "-" /\ s[8] = "-"

\* date-fns normalizeTwoDigitYear(twoDigitYear, currentYear), currentYear > 50
normalizeTwoDigitYear(twoDigitYear, currentYear) ==
    LET rangeEnd == currentYear + 50
        rangeEndCentury == (rangeEnd \div 100) * 100
        isPreviousCentury == twoDigitYear >= rangeEnd % 100
    IN twoDigitYear + rangeEndCentury - (IF isPreviousCentury THEN 100 ELSE 0)

\* the number of leading digits of s, at most n   (/^\d{1,n}/)
RECURSIVE DigitRun(_, _)
DigitRun(s, n) ==
    IF n = 0 \/ s = <<>> \/ ~IsDigit(Head(s)) THEN 0
    ELSE 1 + DigitRun(Tail(s), n - 1)

Drop(s, k) == SubSeq(s, k + 1, Len(s))

\* date-fns parse(s, 'dd<sep>MM<sep>y..y', new Date()) with ylen letters y:
\* each numeric token takes 1..width digits, a separator must match, only
\* blanks may remain, then year, month and day are validated in that order.
DateFnsParse(s, sep, ylen, currentYear) ==
    LET k1 == DigitRun(s, 2)
        r1 == Drop(s, k1)
        r2 == Drop(r1, 1)
        k2 == DigitRun(r2, 2)
        r3 == Drop(r2, k2)
        r4 == Drop(r3, 1)
        k3 == DigitRun(r4, ylen)
        r5 == Drop(r4, k3)
        syntaxOk == /\ k1 >= 1
                    /\ r1 # <<>> /\ r1[1] = sep
                    /\ k2 >= 1
                    /\ r3 # <<>> /\ r3[1] = sep
                    /\ k3 >= 1
                    /\ \A i \in 1..Len(r5) : IsSpace(r5[i])
        dd == DigitsToNat(SubSeq(s, 1, k1))
        mm == DigitsToNat(SubSeq(r2, 1, k2))
        yv == DigitsToNat(SubSeq(r4, 1, k3))
        year == IF ylen = 2 THEN normalizeTwoDigitYear(yv, currentYear) ELSE yv
    IN IF ~syntaxOk THEN Null
       ELSE IF ylen # 2 /\ yv <= 0 THEN Null
       ELSE IF mm < 1 \/ mm > 12 THEN Null
       ELSE IF dd < 1 \/ dd > DaysInMonth(year, mm) THEN Null
       ELSE Day(year, mm, dd)

NaN == [nan |-> TRUE]

(***************************************************************************)
(* Date.parse(s) of the JavaScript engine (the V8 date parser): the        *)
(* string is cut into tokens, the ES5 date-time grammar is tried first,   *)
(* and the legacy grammar reads whatever that grammar left unread.        *)
(***************************************************************************)
None == 0 - 1

DateToken(k, v, len) == [k |-> k, v |-> v, len |-> len]

\* ASCII punctuation below 'A'
LowPunctuation ==
    {"!", "\"", "#", "$", "%", "&", "'", "(", ")", "*", "+", ",", "-", ".",
     "/", ":", ";", "<", "=", ">", "?", "@"}

\* the LineTerminator characters of ECMAScript
LineTerminators == {"\n", "\r", LS, PS}

\* the control characters below 'A' that are not white space: U+0000 to
\* U+0008 and U+000E to U+001F
LowControls ==
    {"U+0000", "U+0001", "U+0002", "U+0003", "U+0004", "U+0005", "U+0006",
     "U+0007", "U+0008", "U+000E", "U+000F", "U+0010", "U+0011", "U+0012",
     "U+0013", "U+0014", "U+0015", "U+0016", "U+0017", "U+0018", "U+0019",
     "U+001A", "U+001B", "U+001C", "U+001D", "U+001E", "U+001F"}

\* the characters that end a word: those below 'A' (U+0000 to U+0040), and
\* the WhiteSpace characters (IsWhiteSpaceChar does not hold of a line
\* terminator, so U+2028 and U+2029, which lie above 'A', are characters of
\* a word)
WordEnds ==
    LowControls \cup DigitSet \cup LowPunctuation
        \cup {" ", "\t", "\n", "\r", "\f", VT} \cup (WhiteSpace \ LineTerminators)

\* InputReader::IsEnd: ch_ == 0, so the reader is at its end after the last
\* character and at a U+0000 of the string
IsEnd(s) == s = <<>> \/ Head(s) = "U+0000"

\* InputReader: IsAsciiAlphaOrAbove() && !IsWhiteSpaceChar()
IsAsciiAlphaOrAbove(c) == c \notin WordEnds

\* AsciiAlphaToLower: c | 0x20, which is a letter only for an ASCII letter
AsciiAlphaToLower(c) == AsciiLower(c)

RECURSIVE WordRun(_)
WordRun(s) ==
    IF s = <<>> \/ ~IsAsciiAlphaOrAbove(Head(s)) THEN 0 ELSE 1 + WordRun(Tail(s))

RECURSIVE SkipZeros(_)
SkipZeros(s) == IF s # <<>> /\ Head(s) = "0" THEN SkipZeros(Tail(s)) ELSE s

\* InputReader::ReadUnsignedNumeral: leading zeros skipped, nine digits kept
ReadUnsignedNumeral(digits) ==
    LET sig == SkipZeros(digits)
    IN DigitsToNat(SubSeq(sig, 1, IF Len(sig) < 9 THEN Len(sig) ELSE 9))

\* InputReader::SkipParentheses: the characters consumed from a "("
RECURSIVE SkipParentheses(_, _)
SkipParentheses(s, balance) ==
    LET b == IF Head(s) = ")" THEN balance - 1
             ELSE IF Head(s) = "(" THEN balance + 1 ELSE balance
    IN IF b > 0 /\ ~IsEnd(Tail(s)) THEN 1 + SkipParentheses(Tail(s), b) ELSE 1

\* KeywordTable::array: prefix, type, value
KeywordTable ==
    << << <<"j", "a", "n">>, "month", 1 >>,
       << <<"f", "e", "b">>, "month", 2 >>,
       << <<"m", "a", "r">>, "month", 3 >>,
       << <<"a", "p", "r">>, "month", 4 >>,
       << <<"m", "a", "y">>, "month", 5 >>,
       << <<"j", "u", "n">>, "month", 6 >>,
       << <<"j", "u", "l">>, "month", 7 >>,
       << <<"a", "u", "g">>, "month", 8 >>,
       << <<"s", "e", "p">>, "month", 9 >>,
       << <<"o", "c", "t">>, "month", 10 >>,
       << <<"n", "o", "v">>, "month", 11 >>,
       << <<"d", "e", "c">>, "month", 12 >>,
       << <<"a", "m">>, "ampm", 0 >>,
       << <<"p", "m">>, "ampm", 12 >>,
       << <<"u", "t">>, "zone", 0 >>,
       << <<"u", "t", "c">>, "zone", 0 >>,
       << <<"z">>, "zone", 0 >>,
       << <<"g", "m", "t">>, "zone", 0 >>,
       << <<"c", "d", "t">>, "zone", 0 - 5 >>,
       << <<"c", "s", "t">>, "zone", 0 - 6 >>,
       << <<"e", "d", "t">>, "zone", 0 - 4 >>,
       << <<"e", "s", "t">>, "zone", 0 - 5 >>,
       << <<"m", "d", "t">>, "zone", 0 - 6 >>,
       << <<"m", "s", "t">>, "zone", 0 - 7 >>,
       << <<"p", "d", "t">>, "zone", 0 - 7 >>,
       << <<"p", "s", "t">>, "zone", 0 - 8 >>,
       << <<"t">>, "tsep", 0 >> >>

\* KeywordTable::Lookup of a word: its first three letters in lower case
\* against the table; a word longer than the keyword only for month names
DateKeyword(word) ==
    LET len == Len(word)
        pre == [i \in 1..(IF len < 3 THEN len ELSE 3) |-> AsciiAlphaToLower(word[i])]
        hit == {i \in 1..Len(KeywordTable) :
                   /\ KeywordTable[i][1] = pre
                   /\ (len <= 3 \/ KeywordTable[i][2] = "month")}
    IN IF hit = {} THEN DateToken("word", 0, len)
       ELSE LET i == CHOOSE i \in hit : \A j \in hit : i <= j
            IN DateToken(KeywordTable[i][2], KeywordTable[i][3], len)

\* DateStringTokenizer::Scan, to the end of the input; a character that is
\* no digit, symbol, word character, white space or "(" is an unknown token
RECURSIVE DateTokens(_)
DateTokens(s) ==
    IF IsEnd(s) THEN <<>>
    ELSE IF IsDigit(Head(s))
         THEN LET len == DigitRun(s, Len(s))
              IN <<DateToken("num", ReadUnsignedNumeral(SubSeq(s, 1, len)), len)>>
                 \o DateTokens(Drop(s, len))
    ELSE IF Head(s) \in {":", "-", "+", ".", ")"}
         THEN <<DateToken("sym", Head(s), 1)>> \o DateTokens(Tail(s))
    ELSE IF IsAsciiAlphaOrAbove(Head(s))
         THEN LET len == WordRun(s)
              IN <<DateKeyword(SubSeq(s, 1, len))>> \o DateTokens(Drop(s, len))
    ELSE IF IsSpace(Head(s))
         THEN <<DateToken("ws", 0, 1)>> \o DateTokens(Tail(s))
    ELSE IF Head(s) = "("
         THEN <<DateToken("unknown", 0, 0)>> \o DateTokens(Drop(s, SkipParentheses(s, 0)))
    ELSE <<DateToken("unknown", 0, 1)>> \o DateTokens(Tail(s))

\* scanner.Peek() at position i
TokenAt(ts, i) == IF i <= Len(ts) THEN ts[i] ELSE DateToken("end", 0, 0)

IsFixedNumber(t, n) == t.k = "num" /\ t.len = n
IsSymbol(t, c) == t.k = "sym" /\ t.v = c
IsAsciiSign(t) == t.k = "sym" /\ t.v \in {"+", "-"}
IsKeywordZ(t) == t.k = "zone" /\ t.len = 1 /\ t.v = 0

IsMonth(x) == x >= 1 /\ x <= 12
IsDay(x) == x >= 1 /\ x <= 31
IsHour(x) == x >= 0 /\ x <= 23
IsHour12(x) == x >= 0 /\ x <= 12
IsMinute(x) == x >= 0 /\ x <= 59
IsSecond(x) == x >= 0 /\ x <= 59
IsMillisecond(x) == x >= 0 /\ x <= 999

\* DateParser::ReadMilliseconds: the three most significant fraction digits
ReadMilliseconds(t) ==
    IF t.len = 1 THEN t.v * 100
    ELSE IF t.len = 2 THEN t.v * 10
    ELSE IF t.len = 3 THEN t.v
    ELSE t.v \div Pow10((IF t.len > 9 THEN 9 ELSE t.len) - 3)

\* the composers of the parser: the numbers of the day read so far, a named
\* month, the numbers of the time, an AM/PM offset, the zone, and whether a
\* number has been read
\* sign 0: no zone has been read
NoZone == [sign |-> 0, hour |-> None, minute |-> None]

Composers(day, time, zone, iso) ==
    [ok |-> TRUE, day |-> day, named |-> None, time |-> time, hourOffset |-> None,
     zone |-> zone, iso |-> iso, has |-> day # <<>>]

ParseFailed == [ok |-> FALSE]

\* the time of ParseES5DateTime, 'T'HH':'mm[':'ss['.'sss]] with ts[a] the
\* 'T': [ok, time, z], z the position of the token after the time
ES5TimeFields(ts, a) ==
    LET h == TokenAt(ts, a + 1)
        mi == TokenAt(ts, a + 3)
        hasS == IsSymbol(TokenAt(ts, a + 4), ":")
        sec == TokenAt(ts, a + 5)
        hasMs == hasS /\ IsSymbol(TokenAt(ts, a + 6), ".")
        ms == TokenAt(ts, a + 7)
        ok == /\ IsFixedNumber(h, 2) /\ h.v <= 24
              /\ IsSymbol(TokenAt(ts, a + 2), ":")
              /\ IsFixedNumber(mi, 2) /\ IsMinute(mi.v) /\ (h.v = 24 => mi.v = 0)
              /\ hasS => (IsFixedNumber(sec, 2) /\ IsSecond(sec.v) /\ (h.v = 24 => sec.v = 0))
              /\ hasMs => (ms.k = "num" /\ (h.v = 24 => ms.v = 0))
    IN IF ~ok THEN [ok |-> FALSE]
       ELSE [ok |-> TRUE,
             time |-> <<h.v, mi.v>> \o (IF hasS THEN <<sec.v>> ELSE <<>>)
                      \o (IF hasMs THEN <<ReadMilliseconds(ms)>> ELSE <<>>),
             z |-> a + 4 + (IF hasS THEN 2 ELSE 0) + (IF hasMs THEN 2 ELSE 0)]

\* the zone of ParseES5DateTime from position z: 'Z' | (+|-)hh':'mm |
\* (+|-)hhmm | nothing: [ok, zone, e], e the position of the token after it
ES5Zone(ts, z) ==
    LET t == TokenAt(ts, z)
        n == TokenAt(ts, z + 1)
        m == TokenAt(ts, z + 3)
        sign == IF t.v = "+" THEN 1 ELSE 0 - 1
    IN IF IsKeywordZ(t)
       THEN [ok |-> TRUE, zone |-> [sign |-> 1, hour |-> 0, minute |-> 0], e |-> z + 1]
       ELSE IF IsAsciiSign(t)
            THEN IF IsFixedNumber(n, 4)
                 THEN IF ~(IsHour(n.v \div 100) /\ IsMinute(n.v % 100)) THEN [ok |-> FALSE]
                      ELSE [ok |-> TRUE,
                            zone |-> [sign |-> sign, hour |-> n.v \div 100,
                                      minute |-> n.v % 100],
                            e |-> z + 2]
                 ELSE IF ~(IsFixedNumber(n, 2) /\ IsHour(n.v)) THEN [ok |-> FALSE]
                 ELSE IF ~IsSymbol(TokenAt(ts, z + 2), ":") THEN [ok |-> FALSE]
                 ELSE IF ~(IsFixedNumber(m, 2) /\ IsMinute(m.v)) THEN [ok |-> FALSE]
                 ELSE [ok |-> TRUE, zone |-> [sign |-> sign, hour |-> n.v, minute |-> m.v],
                       e |-> z + 4]
       ELSE [ok |-> TRUE, zone |-> NoZone, e |-> z]

\* the end of ParseES5DateTime: nothing may follow the zone
ES5TimeEnd(ts, day, time, zone) ==
    IF ~zone.ok THEN ParseFailed
    ELSE IF TokenAt(ts, zone.e).k # "end" THEN ParseFailed
    ELSE Composers(day, time, zone.zone, TRUE)

ES5TimeThenZone(ts, day, fields) ==
    IF ~fields.ok THEN ParseFailed
    ELSE ES5TimeEnd(ts, day, fields.time, ES5Zone(ts, fields.z))

\* the time and zone of ParseES5DateTime, to the end of the string
ParseES5Time(ts, a, day) == ES5TimeThenZone(ts, day, ES5TimeFields(ts, a))

\* the date of ParseES5DateTime, YYYY['-'MM['-'DD]]: the numbers read, the
\* position reached, and whether the grammar was left for the legacy one
ES5Date(ts) ==
    LET y == TokenAt(ts, 1)
        m == TokenAt(ts, 3)
        d == TokenAt(ts, 5)
    IN IF ~IsFixedNumber(y, 4) THEN [left |-> TRUE, at |-> 1, day |-> <<>>]
       ELSE IF ~IsSymbol(TokenAt(ts, 2), "-") THEN [left |-> FALSE, at |-> 2, day |-> <<y.v>>]
       ELSE IF ~(IsFixedNumber(m, 2) /\ IsMonth(m.v))
            THEN [left |-> TRUE, at |-> 3, day |-> <<y.v>>]
       ELSE IF ~IsSymbol(TokenAt(ts, 4), "-")
            THEN [left |-> FALSE, at |-> 4, day |-> <<y.v, m.v>>]
       ELSE IF ~(IsFixedNumber(d, 2) /\ IsDay(d.v))
            THEN [left |-> TRUE, at |-> 5, day |-> <<y.v, m.v>>]
       ELSE [left |-> FALSE, at |-> 6, day |-> <<y.v, m.v, d.v>>]

ES5TimeResult(st) == IF st.ok THEN [what |-> "end", st |-> st] ELSE [what |-> "invalid"]

\* the optional time of ParseES5DateTime after the date
ES5AfterDate(ts, date) ==
    IF ~date.left /\ TokenAt(ts, date.at).k = "tsep"
    THEN ES5TimeResult(ParseES5Time(ts, date.at, date.day))
    ELSE IF ~date.left /\ TokenAt(ts, date.at).k = "end"
    THEN [what |-> "end",
          st |-> Composers(date.day, <<>>, [sign |-> 1, hour |-> 0, minute |-> 0], TRUE)]
    ELSE [what |-> "next", at |-> date.at,
          st |-> Composers(date.day, <<>>, NoZone, FALSE)]

\* DateParser::ParseES5DateTime on a string that begins with a digit:
\* [what |-> "end", st] when the whole string is an ES5 date-time,
\* [what |-> "invalid"], or [what |-> "next", at, st] with the position of
\* the token the legacy grammar starts from
ParseES5DateTime(ts) == ES5AfterDate(ts, ES5Date(ts))

\* TimeComposer::IsExpecting
TimeIsExpecting(time, n) ==
    \/ Len(time) = 1 /\ IsMinute(n)
    \/ Len(time) = 2 /\ IsSecond(n)
    \/ Len(time) = 3 /\ IsMillisecond(n)

\* TimeComposer::Add, without effect when the four slots are taken
TimeAdd(time, n) == IF Len(time) < 4 THEN Append(time, n) ELSE time

\* TimeComposer::AddFinal
TimeAddFinal(time, n) ==
    LET t == TimeAdd(time, n) IN t \o [i \in 1..(4 - Len(t)) |-> 0]

\* the loop of DateParser::Parse from token i on (the legacy grammar)
RECURSIVE ParseLegacy(_, _, _)
ParseLegacy(ts, i, st) ==
    IF i > Len(ts) THEN st
    ELSE
      LET token == ts[i]
          p1 == TokenAt(ts, i + 1)
          p2 == TokenAt(ts, i + 2)
      IN
      IF token.k = "num"
      THEN LET n == token.v
               dot == IsSymbol(p1, ".")
               j == IF dot THEN i + 2 ELSE i + 1
               pj == TokenAt(ts, j)
               read == [st EXCEPT !.has = TRUE]
           IN IF IsSymbol(p1, ":")
              THEN IF IsSymbol(p2, ":")
                   THEN IF st.time # <<>> THEN ParseFailed
                        ELSE ParseLegacy(ts, i + 3, [read EXCEPT !.time = <<n, 0>>])
                   ELSE IF Len(st.time) >= 4 THEN ParseFailed
                        ELSE ParseLegacy(ts, IF IsSymbol(p2, ".") THEN i + 3 ELSE i + 2,
                                         [read EXCEPT !.time = Append(@, n)])
              ELSE IF dot /\ TimeIsExpecting(st.time, n)
                   THEN IF pj.k # "num" THEN ParseFailed
                        ELSE ParseLegacy(ts, j + 1,
                                 [read EXCEPT !.time =
                                      TimeAddFinal(TimeAdd(@, n), ReadMilliseconds(pj))])
              ELSE IF st.zone.hour # None /\ st.zone.minute = None /\ IsMinute(n)
                   THEN ParseLegacy(ts, j, [read EXCEPT !.zone.minute = n])
              ELSE IF TimeIsExpecting(st.time, n)
                   THEN IF ~(pj.k \in {"end", "ws"} \/ IsKeywordZ(pj) \/ IsAsciiSign(pj))
                        THEN ParseFailed
                        ELSE ParseLegacy(ts, j, [read EXCEPT !.time = TimeAddFinal(@, n)])
              ELSE IF Len(st.day) >= 3 THEN ParseFailed
              ELSE ParseLegacy(ts, IF IsSymbol(pj, "-") THEN j + 1 ELSE j,
                               [read EXCEPT !.day = Append(@, n)])
      ELSE IF token.k \in {"month", "ampm", "zone", "tsep", "word"}
      THEN IF token.k = "ampm" /\ st.time # <<>>
           THEN ParseLegacy(ts, i + 1, [st EXCEPT !.hourOffset = token.v])
           ELSE IF token.k = "month"
           THEN ParseLegacy(ts, IF IsSymbol(p1, "-") THEN i + 2 ELSE i + 1,
                            [st EXCEPT !.named = token.v])
           ELSE IF token.k = "zone" /\ st.has
           THEN ParseLegacy(ts, i + 1,
                    [st EXCEPT !.zone = [sign |-> IF token.v < 0 THEN 0 - 1 ELSE 1,
                                         hour |-> IF token.v < 0 THEN 0 - token.v ELSE token.v,
                                         minute |-> 0]])
           ELSE IF st.has THEN ParseFailed
           ELSE IF p1.k = "num" THEN ParseFailed
           ELSE ParseLegacy(ts, i + 1, st)
      ELSE IF IsAsciiSign(token)
              /\ ((st.zone.hour = 0 /\ st.zone.minute = 0) \/ st.time # <<>>)
      THEN LET sign == IF token.v = "+" THEN 1 ELSE 0 - 1
               hasN == p1.k = "num"
               n == IF hasN THEN p1.v ELSE 0
               length == IF hasN THEN p1.len ELSE 0
               j == IF hasN THEN i + 2 ELSE i + 1
               read == [st EXCEPT !.has = TRUE]
           IN IF IsSymbol(TokenAt(ts, j), ":")
              THEN ParseLegacy(ts, j,
                       [read EXCEPT !.zone = [sign |-> sign, hour |-> n, minute |-> None]])
              ELSE IF length \in {1, 2}
              THEN ParseLegacy(ts, j,
                       [read EXCEPT !.zone = [sign |-> sign, hour |-> n, minute |-> 0]])
              ELSE IF length \in {3, 4}
              THEN ParseLegacy(ts, j,
                       [read EXCEPT !.zone = [sign |-> sign, hour |-> n \div 100,
                                              minute |-> n % 100]])
              ELSE ParseFailed
      ELSE IF (IsAsciiSign(token) \/ IsSymbol(token, ")")) /\ st.has THEN ParseFailed
      ELSE ParseLegacy(ts, i + 1, st)

\* DayComposer::Write: [ok, year, month, day]
DayComposerWrite(st) ==
    LET c == st.day \o [i \in 1..(3 - Len(st.day)) |-> 1]
        ymd == IF st.named = None
               THEN IF st.iso \/ ~IsDay(c[1]) THEN <<c[1], c[2], c[3]>>
                    ELSE <<c[3], c[1], c[2]>>
               ELSE IF ~IsDay(c[1]) THEN <<c[1], st.named, c[2]>>
                    ELSE <<c[2], st.named, c[1]>>
        year == IF st.iso THEN ymd[1]
                ELSE IF ymd[1] >= 0 /\ ymd[1] <= 49 THEN ymd[1] + 2000
                ELSE IF ymd[1] >= 50 /\ ymd[1] <= 99 THEN ymd[1] + 1900
                ELSE ymd[1]
    IN IF st.day = <<>> THEN [ok |-> FALSE]
       ELSE [ok |-> IsMonth(ymd[2]) /\ IsDay(ymd[3]),
             year |-> year, month |-> ymd[2], day |-> ymd[3]]

\* TimeComposer::Write: [ok, hour, minute, second, millisecond]
TimeComposerWrite(st) ==
    LET c == st.time \o [i \in 1..(4 - Len(st.time)) |-> 0]
        hour == IF st.hourOffset = None THEN c[1] ELSE (c[1] % 12) + st.hourOffset
    IN IF st.hourOffset # None /\ ~IsHour12(c[1]) THEN [ok |-> FALSE]
       ELSE [ok |-> \/ IsHour(hour) /\ IsMinute(c[2]) /\ IsSecond(c[3]) /\ IsMillisecond(c[4])
                    \/ hour = 24 /\ c[2] = 0 /\ c[3] = 0 /\ c[4] = 0,
             hour |-> hour, minute |-> c[2], second |-> c[3], millisecond |-> c[4]]

\* TimeZoneComposer::Write: [ok, seconds], the offset of the zone named in
\* the string in seconds east of UTC, or the local zone when none is named.
\* hour * 3600 + minute * 60 is an unsigned 32-bit number (kept as two halves
\* of 16 bits): beyond 2^32 it wraps, above Smi::kMaxValue = 2^31 - 1 the
\* string is not a date
TimeZoneComposerWrite(st, offset) ==
    IF st.zone.sign = 0 THEN [ok |-> TRUE, seconds |-> offset * 60]
    ELSE LET hour == IF st.zone.hour = None THEN 0 ELSE st.zone.hour
             minute == IF st.zone.minute = None THEN 0 ELSE st.zone.minute
             low == (hour % 65536) * 3600 + minute * 60
             high == ((hour \div 65536) * 3600 + (low \div 65536)) % 65536
         IN IF high >= 32768 THEN [ok |-> FALSE]
            ELSE [ok |-> TRUE,
                  seconds |-> st.zone.sign * (high * 65536 + (low % 65536))]

\* DateParser::Parse: the composers after both grammars
DateParserParse(ts, es) ==
    IF es.what = "invalid" THEN ParseFailed
    ELSE IF es.what = "end" THEN es.st
    ELSE ParseLegacy(ts, es.at, es.st)

\* the time value of the composed day, time and zone: [nan] or the day after
\* the epoch and the minute of that day that hold the instant (milliseconds
\* lie inside the second, and the offset is whole seconds).  MakeDay takes
\* the years from -1000000 to 1000000 and rolls a day beyond the month over,
\* 24:00 is the next day.  TimeClip: an instant more than 8.64e15 ms
\* (100000000 days) away from the epoch is no time value
DateTimeValue(day, time, zone) ==
    IF ~day.ok \/ ~time.ok \/ ~zone.ok THEN NaN
    ELSE IF day.year < 0 - 1000000 \/ day.year > 1000000 THEN NaN
    ELSE LET m == time.hour * 60 + time.minute - (zone.seconds \div 60)
                  + ((time.second - (zone.seconds % 60)) \div 60)
             d == DaysFromCivil(day.year, day.month, 1) + day.day - 1 + m \div 1440
             inDay == m % 1440 # 0 \/ (time.second - (zone.seconds % 60)) % 60 # 0
                          \/ time.millisecond # 0
         IN IF d < 0 - 100000000 \/ d > 100000000 \/ (d = 100000000 /\ inDay) THEN NaN
            ELSE [nan |-> FALSE, day |-> d, min |-> m % 1440]

DateComposed(st, offset) ==
    IF ~st.ok THEN NaN
    ELSE DateTimeValue(DayComposerWrite(st), TimeComposerWrite(st),
                       TimeZoneComposerWrite(st, offset))

\* Date.parse(s) for a string that passed MatchesIsoPrefix: the date-only
\* ES5 form is UTC, every other form without a zone is local time
DateParse(s, offset) ==
    LET ts == DateTokens(s)
    IN DateComposed(DateParserParse(ts, ParseES5DateTime(ts)), offset)

\* startOfDay(new Date(t)): the local calendar day of the instant t
LocalDayOfDate(t, offset) ==
    CivilFromDays(t.day + (t.min + offset) \div 1440)

\* the string branch of normalizeDate after the strict rule failed
normalizeDateFallbacks(s, offset, currentYear) ==
    LET p1 == DateFnsParse(s, "-", 2, currentYear)
        p2 == DateFnsParse(s, "-", 4, currentYear)
        p3 == DateFnsParse(s, "/", 4, currentYear)
    IN CHOOSE day \in
           {IF ~iso.nan THEN LocalDayOfDate(iso, offset)
            ELSE IF p1 # Null THEN p1
            ELSE IF p2 # Null THEN p2
            ELSE IF p3 # Null THEN p3
            ELSE Null :
            iso \in {IF MatchesIsoPrefix(s) THEN DateParse(s, offset) ELSE NaN}} : TRUE

normalizeDate(v, offset, currentYear) ==
    IF Falsy(v) THEN Null
    ELSE IF InSerialWindow(v)
         THEN parseStrictDDMMYY(convertExcelSerialToDDMMYY(v, offset))
    ELSE IF isExcelDate(v) THEN excelDateToJSDate(v, offset)
    ELSE IF v.t = "str"
         THEN LET s == Trim(v.s)
                  strict == parseStrictDDMMYY(s)
              IN IF strict # Null THEN strict
                 ELSE normalizeDateFallbacks(s, offset, currentYear)
    ELSE Null

(***************************************************************************)
(* Header resolution.                                                      *)
(***************************************************************************)
RemoveChar(s, c) == SelectSeq(s, LAMBDA x : x # c)

\* .replace(/[_\-]/g, ' '), one character
DashToSpace(c) == IF c \in {"_", "-"} THEN " " ELSE c

DashesToSpaces(s) == [i \in 1..Len(s) |-> DashToSpace(s[i])]

\* .replace(/\s+/g, ' ')
RECURSIVE CollapseSpaces(_)
CollapseSpaces(s) ==
    IF s = <<>> THEN <<>>
    ELSE IF IsSpace(Head(s))
         THEN <<" ">> \o CollapseSpaces(TrimLeft(s))
    ELSE <<Head(s)>> \o CollapseSpaces(Tail(s))

\* mutant: case is kept
normalizeHeaderName_CaseKept(header) ==
    Trim(CollapseSpaces(DashesToSpaces(RemoveChar(header, BOM))))

normalizeHeaderName(header) ==
    Trim(CollapseSpaces(DashesToSpaces(RemoveChar(toLowerCase(header), BOM))))

\* A row is the sequence of its <<header, value>> pairs in key order.
\* The keys of the Map `lookup`: the normalized header of every column.
LookupKeys(row) == [j \in 1..Len(row) |-> normalizeHeaderName(row[j][1])]

\* lookup.has(norm)
LookupHas(keys, norm) == \E j \in 1..Len(keys) : keys[j] = norm

\* lookup.get(norm): the value set last under norm
LookupGet(row, keys, norm) ==
    LET j == CHOOSE j \in 1..Len(keys) :
                 /\ keys[j] = norm
                 /\ \A k \in (j + 1)..Len(keys) : keys[k] # norm
    IN row[j][2]

\* the loop over the candidates, first to last
RECURSIVE FirstCandidate(_, _, _)
FirstCandidate(row, keys, candidates) ==
    IF candidates = <<>> THEN Undefined
    ELSE LET norm == normalizeHeaderName(Head(candidates))
         IN IF LookupHas(keys, norm) THEN LookupGet(row, keys, norm)
            ELSE FirstCandidate(row, keys, Tail(candidates))

\* mutant (part of getValueFromRow_LastCandidate): the loop run last to first
RECURSIVE LastCandidate(_, _, _)
LastCandidate(row, keys, candidates) ==
    IF candidates = <<>> THEN Undefined
    ELSE LET norm == normalizeHeaderName(candidates[Len(candidates)])
         IN IF LookupHas(keys, norm) THEN LookupGet(row, keys, norm)
            ELSE LastCandidate(row, keys, SubSeq(candidates, 1, Len(candidates) - 1))

\* mutant: the last candidate that matches wins
getValueFromRow_LastCandidate(row, candidates) ==
    LastCandidate(row, LookupKeys(row), candidates)

getValueFromRow(row, candidates) ==
    FirstCandidate(row, LookupKeys(row), candidates)

(***************************************************************************)
(* Item-list parsing.                                                      *)
(***************************************************************************)
RECURSIVE QuoteCount(_)
QuoteCount(s) ==
    IF s = <<>> THEN 0
    ELSE (IF Head(s) = "\"" THEN 1 ELSE 0) + QuoteCount(Tail(s))

\* ,(?=(?:[^"]*"[^"]*")*[^"]*$): a comma followed, up to the end of the
\* cell, by an even number of double quotes
IsSplitComma(cell, i) ==
    cell[i] = "," /\ QuoteCount(SubSeq(cell, i + 1, Len(cell))) % 2 = 0

\* cell.split(/\r?\n|,(?=...)/) from position i on, cur being the piece read
RECURSIVE SplitFrom(_, _, _)
SplitFrom(cell, i, cur) ==
    IF i > Len(cell) THEN <<cur>>
    ELSE IF cell[i] = "\r" /\ i < Len(cell) /\ cell[i + 1] = "\n"
         THEN <<cur>> \o SplitFrom(cell, i + 2, <<>>)
    ELSE IF cell[i] = "\n" \/ IsSplitComma(cell, i)
         THEN <<cur>> \o SplitFrom(cell, i + 1, <<>>)
    ELSE SplitFrom(cell, i + 1, Append(cur, cell[i]))

\* mutant: every comma separates, quoted or not
RECURSIVE SplitEveryComma(_, _, _)
SplitEveryComma(cell, i, cur) ==
    IF i > Len(cell) THEN <<cur>>
    ELSE IF cell[i] = "\n" \/ cell[i] = ","
         THEN <<cur>> \o SplitEveryComma(cell, i + 1, <<>>)
    ELSE SplitEveryComma(cell, i + 1, Append(cur, cell[i]))

\* .map((s) => s.trim()).filter(Boolean)
RECURSIVE TrimAndFilter(_)
TrimAndFilter(parts) ==
    IF parts = <<>> THEN <<>>
    ELSE LET p == Trim(Head(parts))
         IN (IF p = <<>> THEN <<>> ELSE <<p>>) \o TrimAndFilter(Tail(parts))

splitItemsList(cell) == TrimAndFilter(SplitFrom(cell, 1, <<>>))

\* the number of digits that end s
RECURSIVE TrailingDigits(_)
TrailingDigits(s) ==
    IF s = <<>> \/ ~IsDigit(s[Len(s)]) THEN 0
    ELSE 1 + TrailingDigits(SubSeq(s, 1, Len(s) - 1))

\* part.match(/\s-\s(\d+)\s*$/) on a trimmed part: the digits that end the
\* part are preceded by whitespace, '-', whitespace
QtyMatch(part) ==
    LET n == Len(part)
        k == TrailingDigits(part)
    IN /\ k >= 1
       /\ n - k >= 3
       /\ IsSpace(part[n - k]) /\ part[n - k - 1] = "-" /\ IsSpace(part[n - k - 2])

Item(name, quantity, raw) == [name |-> name, quantity |-> quantity, raw |-> raw]

\* one iteration of the loop of parseItemsFromOfflineCell
ParseOfflinePart(part) ==
    IF QtyMatch(part)
    THEN LET n == Len(part)
             k == TrailingDigits(part)
         IN Item(Trim(SubSeq(part, 1, n - k - 3)),
                 DigitsToNat(SubSeq(part, n - k + 1, n)), part)
    ELSE Item(part, 1, part)

RECURSIVE ParseOfflineParts(_)
ParseOfflineParts(parts) ==
    IF parts = <<>> THEN <<>>
    ELSE <<ParseOfflinePart(Head(parts))>> \o ParseOfflineParts(Tail(parts))

parseItemsFromOfflineCell(cell) == ParseOfflineParts(splitItemsList(cell))

(***************************************************************************)
(* Notes grammar.                                                          *)
(***************************************************************************)
\* cell.split(/\r?\n/) from position i on, cur being the piece read
RECURSIVE SplitLines(_, _, _)
SplitLines(cell, i, cur) ==
    IF i > Len(cell) THEN <<cur>>
    ELSE IF cell[i] = "\r" /\ i < Len(cell) /\ cell[i + 1] = "\n"
         THEN <<cur>> \o SplitLines(cell, i + 2, <<>>)
    ELSE IF cell[i] = "\n"
         THEN <<cur>> \o SplitLines(cell, i + 1, <<>>)
    ELSE SplitLines(cell, i + 1, Append(cur, cell[i]))

\* the number of digits that start s   (\d+, greedy)
RECURSIVE LeadingDigits(_)
LeadingDigits(s) ==
    IF s = <<>> \/ ~IsDigit(Head(s)) THEN 0
    ELSE 1 + LeadingDigits(Tail(s))

\* (.+)$ : one or more characters, none a line terminator, up to the end
DotPlus(s) == s # <<>> /\ \A i \in 1..Len(s) : s[i] \notin LineTerminators

NoMatch == [matched |-> FALSE]

\* (\d+)\s*x\s*(.+)$ with flag i, anchored at the start of t
CountXName(t) ==
    LET k == LeadingDigits(t)
        a == TrimLeft(Drop(t, k))
    IN IF k >= 1 /\ a # <<>> /\ Head(a) \in {"x", "X"} /\ DotPlus(TrimLeft(Tail(a)))
       THEN [matched |-> TRUE, m1 |-> SubSeq(t, 1, k), m2 |-> TrimLeft(Tail(a))]
       ELSE NoMatch

\* s.match(/^[-*]\s*(\d+)\s*x\s*(.+)$/i)
MatchMarkerCountX(s) ==
    IF s # <<>> /\ Head(s) \in {"-", "*"} THEN CountXName(TrimLeft(Tail(s))) ELSE NoMatch

\* s.match(/^(\d+)\s*x\s*(.+)$/i)
MatchCountX(s) == CountXName(s)

\* s.match(/^[-*]\s*(.+)$/)
MatchMarker(s) ==
    IF s # <<>> /\ Head(s) \in {"-", "*"} /\ DotPlus(TrimLeft(Tail(s)))
    THEN [matched |-> TRUE, m1 |-> TrimLeft(Tail(s))]
    ELSE NoMatch

\* mutant: the marker-only pattern is tried first
ParseNotesLine_MarkerFirst(line) ==
    LET s == Trim(line)
    IN IF s = <<>> THEN <<>>
       ELSE IF MatchMarker(s).matched
            THEN <<Item(Trim(MatchMarker(s).m1), 1, s)>>
       ELSE IF MatchCountX(s).matched
            THEN <<Item(Trim(MatchCountX(s).m2), DigitsToNat(MatchCountX(s).m1), s)>>
       ELSE <<>>

\* one iteration of the loop of parseItemsFromNotes
ParseNotesLine(line) ==
    LET s == Trim(line)
    IN IF s = <<>> THEN <<>>
       ELSE IF MatchMarkerCountX(s).matched
            THEN <<Item(Trim(MatchMarkerCountX(s).m2),
                        DigitsToNat(MatchMarkerCountX(s).m1), s)>>
       ELSE IF MatchCountX(s).matched
            THEN <<Item(Trim(MatchCountX(s).m2), DigitsToNat(MatchCountX(s).m1), s)>>
       ELSE IF MatchMarker(s).matched
            THEN <<Item(Trim(MatchMarker(s).m1), 1, s)>>
       ELSE <<>>

RECURSIVE ParseNotesLines(_)
ParseNotesLines(lines) ==
    IF lines = <<>> THEN <<>>
    ELSE ParseNotesLine(Head(lines)) \o ParseNotesLines(Tail(lines))

parseItemsFromNotes(cell) == ParseNotesLines(SplitLines(cell, 1, <<>>))

(***************************************************************************)
(* Event materialization (the onload callback of handleFile).              *)
(***************************************************************************)
S_OrderNumber == <<"O", "r", "d", "e", "r", " ", "N", "u", "m", "b", "e", "r">>
S_OrderNo == <<"O", "r", "d", "e", "r", " ", "N", "o">>
S_OrderHash == <<"O", "r", "d", "e", "r", "#">>
S_OrderId == <<"O", "r", "d", "e", "r", " ", "I", "d">>
S_OrderID == <<"O", "r", "d", "e", "r", "I", "D">>
S_OrderAlias == <<"O", "r", "d", "e", "r", " ", "A", "l", "i", "a", "s">>
S_DeliveryDate == <<"D", "e", "l", "i", "v", "e", "r", "y", " ", "D", "a", "t", "e">>
S_DeliveryDt == <<"D", "e", "l", "i", "v", "e", "r", "y", " ", "D", "t">>
S_DeliveryDateJoined == <<"D", "e", "l", "i", "v", "e", "r", "y", "D", "a", "t", "e">>
S_Delivery == <<"D", "e", "l", "i", "v", "e", "r", "y">>
S_DispatchDateFirst ==
    <<"D", "i", "s", "p", "a", "t", "c", "h", " ", "D", "a", "t", "e", " ", "(", "F", "i", "r",
      "s", "t", ")">>
S_AddOfflineOrder ==
    <<"A", "d", "d", " ", "O", "f", "f", "l", "i", "n", "e", " ", "O", "r", "d", "e", "r">>
S_AddOrder == <<"A", "d", "d", " ", "O", "r", "d", "e", "r">>
S_OfflineOrderItems ==
    <<"O", "f", "f", "l", "i", "n", "e", " ", "O", "r", "d", "e", "r", " ", "I", "t", "e", "m",
      "s">>
S_Items == <<"I", "t", "e", "m", "s">>
S_ProductsOrdered ==
    <<"P", "r", "o", "d", "u", "c", "t", "s", " ", "O", "r", "d", "e", "r", "e", "d">>
S_ItemsForEvent == <<"_", "_", "i", "t", "e", "m", "s", "F", "o", "r", "E", "v", "e", "n", "t">>

orderNumberSynonyms ==
    <<S_OrderNumber, S_OrderNo, S_OrderHash, S_OrderId, S_OrderID, S_OrderAlias>>

deliveryDateSynonyms ==
    <<S_DeliveryDate, S_DeliveryDt, S_DeliveryDateJoined, S_Delivery, S_DispatchDateFirst>>

\* String(value)
StringOf(v) ==
    IF v.t = "str" THEN v.s
    ELSE IF v.t = "num" THEN NumberToString(v)
    ELSE <<"u", "n", "d", "e", "f", "i", "n", "e", "d">>

\* a || b
OrElse(a, b) == IF Falsy(a) THEN b ELSE a

\* headerSet.has(normalizeHeaderName(h)) for some synonym h, on the keys of json[0]
HasColumn(row, synonyms) ==
    LET headerSet == LookupKeys(row)
    IN \E i \in 1..Len(synonyms) : LookupHas(headerSet, normalizeHeaderName(synonyms[i]))

\* p.match(/^(\d{2}-\d{2}-\d{2})-(.+)$/): '.' matches no line terminator
HasDateTag(p) ==
    /\ Len(p) >= 10
    /\ MatchesDDMMYY(SubSeq(p, 1, 8))
    /\ p[9] = "-"
    /\ \A i \in 10..Len(p) : p[i] \notin LineTerminators

\* mutant: a tag seen for the first time is put before the others
RECURSIVE DatedGroups_NewestFirst(_, _)
DatedGroups_NewestFirst(parts, groups) ==
    IF parts = <<>> THEN groups
    ELSE LET p == Head(parts)
             d == SubSeq(p, 1, 8)
             rest == SubSeq(p, 10, Len(p))
         IN IF ~HasDateTag(p) THEN DatedGroups_NewestFirst(Tail(parts), groups)
            ELSE IF \E g \in 1..Len(groups) : groups[g][1] = d
                 THEN DatedGroups_NewestFirst(Tail(parts),
                          [g \in 1..Len(groups) |->
                              IF groups[g][1] = d
                              THEN <<d, Append(groups[g][2], rest)>>
                              ELSE groups[g]])
            ELSE DatedGroups_NewestFirst(Tail(parts), <<<<d, <<rest>>>>>> \o groups)

\* datedGroups after the loop over parts: <<tag, rests>> in insertion order
RECURSIVE DatedGroups(_, _)
DatedGroups(parts, groups) ==
    IF parts = <<>> THEN groups
    ELSE LET p == Head(parts)
             d == SubSeq(p, 1, 8)
             rest == SubSeq(p, 10, Len(p))
         IN IF ~HasDateTag(p) THEN DatedGroups(Tail(parts), groups)
            ELSE IF \E g \in 1..Len(groups) : groups[g][1] = d
                 THEN DatedGroups(Tail(parts),
                          [g \in 1..Len(groups) |->
                              IF groups[g][1] = d
                              THEN <<d, Append(groups[g][2], rest)>>
                              ELSE groups[g]])
            ELSE DatedGroups(Tail(parts), Append(groups, <<d, <<rest>>>>))

\* items.join(', ')
RECURSIVE Join(_)
Join(items) ==
    IF items = <<>> THEN <<>>
    ELSE IF Len(items) = 1 THEN items[1]
    ELSE items[1] \o <<",", " ">> \o Join(Tail(items))

\* resource[key] = value on a copy of the row
SetKey(row, key, value) ==
    IF \E j \in 1..Len(row) : row[j][1] = key
    THEN [j \in 1..Len(row) |-> IF row[j][1] = key THEN <<key, value>> ELSE row[j]]
    ELSE Append(row, <<key, value>>)

ItemsValue(items) == [t |-> "items", items |-> items]

\* startOfDay(date) of date-fns, setHours(0, 0, 0, 0): the local day and the
\* millisecond of the day
startOfDay(day) == [day |-> day, ms |-> 0]

\* endOfDay(date) of date-fns, setHours(23, 59, 59, 999): the time value set
\* is clipped (TimeClip), so a local day whose last millisecond lies after
\* the last instant of a Date (100000000 days after the epoch, UTC) has an
\* Invalid Date, a Date whose time value is NaN, as its end
endOfDay(day, offset) ==
    IF DaysFromCivil(day.y, day.m, day.d) + ((1439 - offset) \div 1440) >= 100000000
    THEN [invalid |-> TRUE]
    ELSE [day |-> day, ms |-> 86399999]

\* mutant: the event ends where it starts
OrderEvent_EndAtStart(title, delivery, resource, offset) ==
    [title |-> title, start |-> startOfDay(delivery), end |-> startOfDay(delivery),
     resource |-> resource]

OrderEvent(title, delivery, resource, offset) ==
    [title |-> title, start |-> startOfDay(delivery), end |-> endOfDay(delivery, offset),
     resource |-> resource]

\* mutant: the loop over the groups ends at the first tag that fails (break
\* for continue)
RECURSIVE GroupEvents_StopAtBadTag(_, _, _, _, _)
GroupEvents_StopAtBadTag(r, orderNumber, groups, offset, currentYear) ==
    IF groups = <<>> THEN <<>>
    ELSE LET dstr == groups[1][1]
             items == groups[1][2]
             delivery == normalizeDate(Str(dstr), offset, currentYear)
             resource ==
                 SetKey(SetKey(SetKey(r, S_OrderNumber, Str(StringOf(orderNumber))),
                               S_DeliveryDate, Str(dstr)),
                        S_ItemsForEvent, ItemsValue(parseItemsFromOfflineCell(Join(items))))
         IN IF delivery = Null THEN <<>>
            ELSE <<OrderEvent(StringOf(orderNumber), delivery, resource, offset)>>
                    \o GroupEvents_StopAtBadTag(r, orderNumber, Tail(groups), offset,
                                                currentYear)

\* the events pushed for the date groups of one row, in the order of the map
RECURSIVE GroupEvents(_, _, _, _, _)
GroupEvents(r, orderNumber, groups, offset, currentYear) ==
    IF groups = <<>> THEN <<>>
    ELSE LET dstr == groups[1][1]
             items == groups[1][2]
             delivery == normalizeDate(Str(dstr), offset, currentYear)
             resource ==
                 SetKey(SetKey(SetKey(r, S_OrderNumber, Str(StringOf(orderNumber))),
                               S_DeliveryDate, Str(dstr)),
                        S_ItemsForEvent, ItemsValue(parseItemsFromOfflineCell(Join(items))))
         IN (IF delivery = Null THEN <<>>
             ELSE <<OrderEvent(StringOf(orderNumber), delivery, resource, offset)>>)
            \o GroupEvents(r, orderNumber, Tail(groups), offset, currentYear)

\* String(getValueFromRow(r, [...]) || getValueFromRow(r, [...]) || '')
AllItemsCell(r) ==
    StringOf(OrElse(getValueFromRow(r, <<S_AddOfflineOrder, S_AddOrder>>),
             OrElse(getValueFromRow(r, <<S_OfflineOrderItems, S_Items, S_ProductsOrdered>>),
                    Str(<<>>))))

\* mutant: a delivery date that does not normalize is replaced by a default day
FallbackEvents_DefaultDay(r, orderNumber, deliveryRawFallback, offset, currentYear) ==
    LET delivery == normalizeDate(deliveryRawFallback, offset, currentYear)
    IN <<OrderEvent(StringOf(orderNumber),
                    IF delivery = Null THEN Day(currentYear, 1, 1) ELSE delivery,
                    SetKey(SetKey(r, S_OrderNumber, Str(StringOf(orderNumber))),
                           S_DeliveryDate, deliveryRawFallback), offset)>>

\* the branch of a row without date groups: the single delivery date field
FallbackEvents(r, orderNumber, deliveryRawFallback, offset, currentYear) ==
    LET delivery == normalizeDate(deliveryRawFallback, offset, currentYear)
    IN IF delivery = Null THEN <<>>
       ELSE <<OrderEvent(StringOf(orderNumber), delivery,
                         SetKey(SetKey(r, S_OrderNumber, Str(StringOf(orderNumber))),
                                S_DeliveryDate, deliveryRawFallback), offset)>>

\* mutant: a row whose date groups give no event falls back to its delivery
\* date field
RowEvents_FallbackWhenNoGroupEvent(r, offset, currentYear) ==
    LET orderNumber == getValueFromRow(r, orderNumberSynonyms)
        deliveryRawFallback == getValueFromRow(r, deliveryDateSynonyms)
        datedGroups == DatedGroups(splitItemsList(AllItemsCell(r)), <<>>)
    IN IF Falsy(orderNumber) THEN <<>>
       ELSE IF GroupEvents(r, orderNumber, datedGroups, offset, currentYear) # <<>>
            THEN GroupEvents(r, orderNumber, datedGroups, offset, currentYear)
       ELSE FallbackEvents(r, orderNumber, deliveryRawFallback, offset, currentYear)

\* the events pushed by one iteration of the loop over the rows
RowEvents(r, offset, currentYear) ==
    LET orderNumber == getValueFromRow(r, orderNumberSynonyms)
        deliveryRawFallback == getValueFromRow(r, deliveryDateSynonyms)
        datedGroups == DatedGroups(splitItemsList(AllItemsCell(r)), <<>>)
    IN IF Falsy(orderNumber) THEN <<>>
       ELSE IF Len(datedGroups) > 0
            THEN GroupEvents(r, orderNumber, datedGroups, offset, currentYear)
       ELSE FallbackEvents(r, orderNumber, deliveryRawFallback, offset, currentYear)

\* eventsOut after the loop over json
RECURSIVE EventsOut(_, _, _)
EventsOut(json, offset, currentYear) ==
    IF json = <<>> THEN <<>>
    ELSE RowEvents(Head(json), offset, currentYear)
            \o EventsOut(Tail(json), offset, currentYear)

\* mutant: only the order column is required
BatchAccepted_OrderColumnOnly(json) ==
    /\ Len(json) > 0
    /\ HasColumn(json[1], orderNumberSynonyms)

\* the batch passes the checks made before the loop over the rows
BatchAccepted(json) ==
    /\ Len(json) > 0
    /\ HasColumn(json[1], orderNumberSynonyms)
    /\ HasColumn(json[1], deliveryDateSynonyms)

(***************************************************************************)
(* Object identity of rows and resources.  Object 0 is the row r of the    *)
(* iteration, object i the resource of the i-th event pushed for it.       *)
(***************************************************************************)
\* mutant: resource = r, the row itself is the resource of each of its events
ResourceRef_SharedRow(i) == 0

\* const resource = { ...r }: a new object for each event
ResourceRef(i) == i

\* the properties assigned on the resource of an event of the row r: three
\* in the branch of the date groups, two in the branch of the delivery date
\* field
WrittenKeys(r) ==
    IF Len(DatedGroups(splitItemsList(AllItemsCell(r)), <<>>)) > 0
    THEN <<S_OrderNumber, S_DeliveryDate, S_ItemsForEvent>>
    ELSE <<S_OrderNumber, S_DeliveryDate>>

\* obj[key] = value for the keys, in order, with the values that
\* `resource` holds for them
RECURSIVE Assign(_, _, _)
Assign(obj, keys, resource) ==
    IF keys = <<>> THEN obj
    ELSE IF \A n \in 1..Len(resource) : resource[n][1] # Head(keys)
         THEN Assign(obj, Tail(keys), resource)
    ELSE Assign(SetKey(obj, Head(keys), CHOOSE v \in {resource[j][2] : j \in
                           {n \in 1..Len(resource) : resource[n][1] = Head(keys)}} : TRUE),
                Tail(keys), resource)

\* the row once the first i events of its iteration are built and their
\* properties (keys) assigned: an assignment reaches the row when the
\* resource refers to it
RECURSIVE RowAt(_, _, _, _)
RowAt(r, es, i, keys) ==
    IF i = 0 THEN r
    ELSE IF ResourceRef(i) = 0
         THEN Assign(RowAt(r, es, i - 1, keys), keys, es[i].resource)
    ELSE RowAt(r, es, i - 1, keys)

\* what the object that the resource of the i-th event refers to holds in
\* the end: the spread copies the properties the row has at that moment, and
\* the last assignments made through a reference to the object remain
ResourceAt(r, es, i, keys) ==
    LET last == CHOOSE j \in i..Len(es) :
                    /\ ResourceRef(j) = ResourceRef(i)
                    /\ \A n \in (j + 1)..Len(es) : ResourceRef(n) # ResourceRef(i)
    IN Assign(RowAt(r, es, last - 1, keys), keys, es[last].resource)

\* the events es pushed for the row, the row after they were built, and
\* what the resources of these events then hold
RowAndResources(r, es, keys) ==
    [events |-> es,
     row |-> RowAt(r, es, Len(es), keys),
     resources |-> [i \in 1..Len(es) |-> ResourceAt(r, es, i, keys)]]

\* one iteration of the loop over the rows
RowIteration(r, offset, currentYear) ==
    CHOOSE it \in {RowAndResources(r, es, keys) :
                      es \in {RowEvents(r, offset, currentYear)},
                      keys \in {WrittenKeys(r)}} : TRUE

\* mutant: the loop ends at the first row that yields nothing (break for continue)
RECURSIVE RowIterations_StopAtSkippedRow(_, _, _)
RowIterations_StopAtSkippedRow(json, offset, currentYear) ==
    IF json = <<>> THEN [events |-> <<>>, rows |-> <<>>, resources |-> <<>>]
    ELSE CHOOSE all \in
             {IF first.events = <<>>
              THEN [events |-> <<>>, rows |-> json, resources |-> <<>>]
              ELSE LET others == RowIterations_StopAtSkippedRow(Tail(json), offset,
                                                                currentYear)
                   IN [events |-> first.events \o others.events,
                       rows |-> <<first.row>> \o others.rows,
                       resources |-> first.resources \o others.resources] :
              first \in {RowIteration(Head(json), offset, currentYear)}} : TRUE

\* the loop over the rows of json: eventsOut, the rows afterwards, and what
\* the resources of the events hold, in the order of eventsOut
RECURSIVE RowIterations(_, _, _)
RowIterations(json, offset, currentYear) ==
    IF json = <<>> THEN [events |-> <<>>, rows |-> <<>>, resources |-> <<>>]
    ELSE CHOOSE all \in
             {[events |-> first.events \o others.events,
               rows |-> <<first.row>> \o others.rows,
               resources |-> first.resources \o others.resources] :
              first \in {RowIteration(Head(json), offset, currentYear)},
              others \in {RowIterations(Tail(json), offset, currentYear)}} : TRUE

\* eventsOut after the loop: each event with what its resource then holds
EventsAfter(eventsOut, resources) ==
    [i \in 1..Len(eventsOut) |-> [eventsOut[i] EXCEPT !.resource = resources[i]]]

(***************************************************************************)
(* Line items of a row, consolidation.                                     *)
(***************************************************************************)
S_Notes == <<"N", "o", "t", "e", "s">>
S_SpecialInstructions ==
    <<"S", "p", "e", "c", "i", "a", "l", " ", "I", "n", "s", "t", "r", "u", "c", "t", "i", "o", "n", "s">>

\* (row as any)[key]
Prop(row, key) ==
    IF \E j \in 1..Len(row) : row[j][1] = key
    THEN row[CHOOSE j \in 1..Len(row) : row[j][1] = key][2]
    ELSE Undefined

\* typeof cell === 'string' && cell.trim().length > 0
NonBlankString(cell) == cell.t = "str" /\ Len(Trim(cell.s)) > 0

\* mutant: the items of the notes cell supplement those of the offline cell
ParsedItems_NotesAppended(row) ==
    LET offlineCell == OrElse(getValueFromRow(row, <<S_OfflineOrderItems, S_Items,
                                  S_ProductsOrdered, S_AddOfflineOrder, S_AddOrder>>),
                              Str(<<>>))
        notesCell == OrElse(getValueFromRow(row, <<S_Notes, S_SpecialInstructions>>),
                            Str(<<>>))
        fromOffline == IF NonBlankString(offlineCell)
                       THEN parseItemsFromOfflineCell(offlineCell.s) ELSE <<>>
    IN IF NonBlankString(notesCell)
       THEN fromOffline \o parseItemsFromNotes(notesCell.s)
       ELSE fromOffline

\* `parsed` before consolidation: the offline cell, else the notes cell
ParsedItems(row) ==
    LET offlineCell == OrElse(getValueFromRow(row, <<S_OfflineOrderItems, S_Items,
                                  S_ProductsOrdered, S_AddOfflineOrder, S_AddOrder>>),
                              Str(<<>>))
        notesCell == OrElse(getValueFromRow(row, <<S_Notes, S_SpecialInstructions>>),
                            Str(<<>>))
        fromOffline == IF NonBlankString(offlineCell)
                       THEN parseItemsFromOfflineCell(offlineCell.s) ELSE <<>>
    IN IF Len(fromOffline) = 0 /\ NonBlankString(notesCell)
       THEN parseItemsFromNotes(notesCell.s)
       ELSE fromOffline

\* it.quantity || 1
QuantityOr1(q) == IF q = 0 THEN 1 ELSE q

\* mutant: a later pair replaces the quantity of its key
RECURSIVE ConsolidatedMap_LastWins(_, _)
ConsolidatedMap_LastWins(parsed, map) ==
    IF parsed = <<>> THEN map
    ELSE LET key == toLowerCase(Head(parsed).name)
             q == QuantityOr1(Head(parsed).quantity)
         IN IF \E g \in 1..Len(map) : map[g][1] = key
            THEN ConsolidatedMap_LastWins(Tail(parsed),
                     [g \in 1..Len(map) |->
                         IF map[g][1] = key THEN <<key, q>> ELSE map[g]])
            ELSE ConsolidatedMap_LastWins(Tail(parsed), Append(map, <<key, q>>))

\* the Map `consolidated` after the loop: <<key, quantity>> in insertion order
RECURSIVE ConsolidatedMap(_, _)
ConsolidatedMap(parsed, map) ==
    IF parsed = <<>> THEN map
    ELSE LET key == toLowerCase(Head(parsed).name)
             q == QuantityOr1(Head(parsed).quantity)
         IN IF \E g \in 1..Len(map) : map[g][1] = key
            THEN ConsolidatedMap(Tail(parsed),
                     [g \in 1..Len(map) |->
                         IF map[g][1] = key THEN <<key, map[g][2] + q>> ELSE map[g]])
            ELSE ConsolidatedMap(Tail(parsed), Append(map, <<key, q>>))

\* parsed.find((p) => p.name.toLowerCase() === k)?.name || k
FirstSpelling(parsed, k) ==
    LET found == {i \in 1..Len(parsed) : toLowerCase(parsed[i].name) = k}
    IN IF found = {} THEN k
       ELSE LET first == CHOOSE i \in found : \A j \in found : i <= j
            IN IF parsed[first].name = <<>> THEN k ELSE parsed[first].name

\* Array.from(consolidated.entries()).map(...)
Consolidate(parsed) ==
    LET map == ConsolidatedMap(parsed, <<>>)
    IN [g \in 1..Len(map) |->
           [name |-> FirstSpelling(parsed, map[g][1]), quantity |-> map[g][2]]]

\* Array.isArray(injected) && injected.length > 0
HasInjected(row) ==
    Prop(row, S_ItemsForEvent).t = "items" /\ Len(Prop(row, S_ItemsForEvent).items) > 0

getParsedLineItems(row) ==
    IF HasInjected(row) THEN Prop(row, S_ItemsForEvent).items
    ELSE Consolidate(ParsedItems(row))

(***************************************************************************)
(* SKU / title classification and statistics.                              *)
(***************************************************************************)
LowerSet == {LowerChars[i] : i \in 1..26}

\* the first position from i on that holds no whitespace   (\s*, greedy)
RECURSIVE SkipSpaces(_, _)
SkipSpaces(s, i) ==
    IF i <= Len(s) /\ IsSpace(s[i]) THEN SkipSpaces(s, i + 1) ELSE i

\* raw.split(/\s*-\s*/) from position i on, cur being the piece read
RECURSIVE SplitDash(_, _, _)
SplitDash(raw, i, cur) ==
    IF i > Len(raw) THEN <<cur>>
    ELSE LET j == SkipSpaces(raw, i)
         IN IF j <= Len(raw) /\ raw[j] = "-"
            THEN <<cur>> \o SplitDash(raw, SkipSpaces(raw, j + 1), <<>>)
            ELSE SplitDash(raw, i + 1, Append(cur, raw[i]))

\* .filter(Boolean)
NonEmptyOnly(parts) == SelectSeq(parts, LAMBDA p : p # <<>>)

\* /[a-z]/.test(token)
HasLowercase(token) == \E i \in 1..Len(token) : token[i] \in LowerSet

\* parts.join(sep)
RECURSIVE JoinBy(_, _)
JoinBy(parts, sep) ==
    IF parts = <<>> THEN <<>>
    ELSE IF Len(parts) = 1 THEN parts[1]
    ELSE parts[1] \o sep \o JoinBy(Tail(parts), sep)

\* the number of tokens pushed to skuParts: those before the first token
\* that has a lowercase letter
RECURSIVE SkuCount(_)
SkuCount(tokens) ==
    IF tokens = <<>> \/ HasLowercase(Head(tokens)) THEN 0
    ELSE 1 + SkuCount(Tail(tokens))

\* mutant: a token goes to the title exactly when it has a lowercase letter
classifySkuAndTitle_PerToken(name) ==
    LET raw == Trim(name)
        tokens == NonEmptyOnly(SplitDash(raw, 1, <<>>))
        skuParts == SelectSeq(tokens, LAMBDA t : ~HasLowercase(t))
        titleParts == SelectSeq(tokens, HasLowercase)
        title == Trim(JoinBy(titleParts, <<" ", "-", " ">>))
    IN [sku |-> Trim(JoinBy(skuParts, <<"-">>)),
        title |-> IF title = <<>> THEN raw ELSE title]

classifySkuAndTitle(name) ==
    LET raw == Trim(name)
        tokens == NonEmptyOnly(SplitDash(raw, 1, <<>>))
        k == SkuCount(tokens)
        skuParts == SubSeq(tokens, 1, k)
        titleParts == SubSeq(tokens, k + 1, Len(tokens))
        title == Trim(JoinBy(titleParts, <<" ", "-", " ">>))
    IN [sku |-> Trim(JoinBy(skuParts, <<"-">>)),
        title |-> IF title = <<>> THEN raw ELSE title]

\* \w of a regular expression
IsWordChar(c) == c \in LowerSet \cup UpperSet \cup DigitSet \cup {"_"}

PackagingCodes ==
    { <<"P", "K", "G">>, <<"H", "A", "M", "P">>, <<"B", "O", "X">>, <<"B", "A", "G">> }

\* /^(PKG|HAMP|BOX|BAG)\b/i.test(skuPrefix): under the flag i (without the
\* flag u) a character outside ASCII is never the same as an ASCII letter
packagingSku(skuPrefix) ==
    \E code \in PackagingCodes :
        /\ Len(skuPrefix) >= Len(code)
        /\ \A i \in 1..Len(code) : AsciiLower(skuPrefix[i]) = AsciiLower(code[i])
        /\ Len(skuPrefix) > Len(code) => ~IsWordChar(skuPrefix[Len(code) + 1])

\* units and hampers after the loop over items
RECURSIVE StatsOf(_)
StatsOf(items) ==
    IF items = <<>> THEN [hampers |-> 0, units |-> 0]
    ELSE LET q == QuantityOr1(Head(items).quantity)
             rest == StatsOf(Tail(items))
         IN [hampers |-> rest.hampers
                         + (IF packagingSku(classifySkuAndTitle(Head(items).name).sku)
                            THEN q ELSE 0),
             units |-> rest.units + q]

computeStats(row) == StatsOf(getParsedLineItems(row))

(***************************************************************************)
(* Environment and inputs.                                                 *)
(***************************************************************************)
TZOffsets == {-300, 0, 330}
NowYears == {2026, 2051}

NoCall == [op |-> "none"]

Init ==
    /\ tz \in TZOffsets
    /\ now \in NowYears
    /\ call = NoCall
    /\ ret = Null
    /\ events = <<>>
    /\ pending = <<>>
    /\ uploads = 0

\* the same with one time zone and one year, for the functions that read neither
InitFixedEnv == Init /\ tz = 0 /\ now = 2026

\* two-digit years tried: leap and common years, both century halves
YearSet == {0, 24, 25, 76, 99}

DDMMYY(d, m, y) == Pad2(d) \o <<"-">> \o Pad2(m) \o <<"-">> \o Pad2(y)

StrictFormStrings ==
    {DDMMYY(d, m, y) : d \in 0..MaxDay, m \in 0..MaxMonth, y \in YearSet}

OtherDateStrings ==
    { <<>>,
      <<" ", "1", "0", "-", "0", "3", "-", "2", "5", " ">>,
      <<"1", "-", "3", "-", "9", "9">>,
      <<"1", "-", "3", "-", "2", "5">>,
      <<"1", "0", "-", "0", "3", "-", "2", "0", "2", "5">>,
      <<"1", "0", "/", "0", "3", "/", "2", "0", "2", "5">>,
      <<"1", "0", "/", "0", "3", "/", "2", "5">>,
      <<"3", "1", "-", "0", "4", "-", "2", "0", "2", "5">>,
      <<"2", "0", "2", "5", "-", "0", "3", "-", "1", "0">>,
      <<"2", "0", "2", "5", "-", "0", "3", "-", "1", "0", "T", "2", "3", ":", "3", "0">>,
      <<"2", "0", "2", "5", "-", "0", "3", "-", "1", "0", "T", "0", "0", ":", "3", "0", "Z">>,
      <<"2", "0", "2", "5", "-", "1", "3", "-", "1", "0">>,
      <<"2", "0", "2", "5", "-", "0", "2", "-", "3", "0">>,
      <<"2", "0", "2", "5", "-", "0", "4", "-", "3", "1">>,
      <<"2", "0", "2", "5", "-", "0", "3", "-", "1", "0", "T", "2", "3", ":", "3", "0", ":", "0", "0">>,
      <<"2", "0", "2", "5", "-", "0", "3", "-", "1", "0", " ", "2", "3", ":", "3", "0">>,
      <<"2", "0", "2", "5", "-", "0", "3", "-", "1", "0", "T", "0", "4", ":", "0", "0", "+", "0", "5", ":", "3", "0">>,
      <<"2", "0", "2", "5", "-", "0", "3", "-", "1", "0", "T", "2", "4", ":", "0", "0">>,
      <<"2", "0", "2", "5", "-", "0", "3", "-", "1", "0", "Z">>,
      <<"2", "0", "2", "5", "-", "0", "3", "-", "1", "0", "t", "0", "0", ":", "3", "0", "z">>,
      <<"2", "0", "2", "5", "-", "0", "3", "-", "1", "0", "x">>,
      <<"2", "0", "2", "5", "-", "0", "3", "-", "1", "0", LS, "1", "0", ":", "0", "0">>,
      <<"2", "0", "2", "5", "-", "0", "3", "-", "1", "0", "U+0001", "1", "0", ":", "0", "0">>,
      <<"2", "0", "2", "5", "-", "0", "3", "-", "1", "0", "U+0000", "x">>,
      <<"0", "0", "0", "9", "-", "1", "3", "-", "2", "7", "5", "7", "6", "0">>,
      <<"0", "0", "0", "9", "-", "1", "4", "-", "2", "7", "5", "7", "6", "0">>,
      <<"0", "0", "1", "2", "-", "0", "3", "-", "1", "0", "1", "2", "3", "0", "5">>,
      <<"0", "0", "1", "2", "-", "0", "3", "-", "1", "0", "0", "0", "0", "0", "0", "0", "0",
        "0", "0", "0", "1">>,
      <<"2", "0", "2", "5", "-", "0", "3", "-", "1", "0", " ", "1", "0", ":", "0", "0", " ",
        "+", "5", "9", "6", "5", "2", "4", ":", "0", "0">>,
      <<"2", "0", "2", "5", "-", "0", "3", "-", "1", "0", " ", "1", "0", ":", "0", "0", " ",
        "+", "1", "1", "9", "3", "0", "4", "7", ":", "0", "0">>,
      <<"M", "a", "r", " ", "1", "0">>,
      <<"1", "0", ".", "0", "3", ".", "2", "5">> }

\* serials around the window's ends, the epoch, 2000-01-01, 2025-03-10,
\* a leap day and a day after 2100
SerialWholes ==
    {0, 5, 25000, 25001, 25569, 26358, 36526, 45716, 45726, 45727,
     73415, 99999, 100000}

\* whole days, noon, and the local midnights of the time zones tried
SerialMinutes == {0, 300, 720, 1110, 1439}

DateInputs ==
    {Str(s) : s \in StrictFormStrings \cup OtherDateStrings}
        \cup {Num(w, f) : w \in SerialWholes, f \in SerialMinutes}
        \cup {Undefined}

\* normalizeDate applied to one raw value
CallNormalizeDate ==
    /\ call = NoCall
    /\ \E v \in DateInputs :
        /\ call' = [op |-> "normalizeDate", arg |-> v]
        /\ ret' = normalizeDate(v, tz, now)
        /\ UNCHANGED <<tz, now, events, pending, uploads>>

NextDate == CallNormalizeDate

SpecDate == Init /\ [][NextDate]_vars

(***************************************************************************)
(* Properties of date normalization (checked under SpecDate).              *)
(***************************************************************************)
\* the string of the last normalizeDate call is of the exact form DD-MM-YY
StrictFormCall ==
    /\ call.op = "normalizeDate"
    /\ call.arg.t = "str"
    /\ Len(call.arg.s) = 8
    /\ \A i \in {1, 2, 4, 5, 7, 8} : IsDigit(call.arg.s[i])
    /\ call.arg.s[3] = "-" /\ call.arg.s[6] = "-"

FieldAt(s, i) == 10 * DigitVal(s[i]) + DigitVal(s[i + 1])

\* the day dd exists in month mm of year y
DayExists(y, mm, dd) ==
    mm \in 1..12 /\ dd >= 1 /\ dd <= DaysInMonth(y, mm)

\* C1: a DD-MM-YY string naming an existing day of month MM of 2000+YY is
\* normalized to the start of exactly that day: day = DD, month = MM,
\* year = 2000 + YY; the first field is never taken as the month.
C1_StrictDayFirst ==
    StrictFormCall =>
        LET dd == FieldAt(call.arg.s, 1)
            mm == FieldAt(call.arg.s, 4)
            yy == FieldAt(call.arg.s, 7)
        IN DayExists(2000 + yy, mm, dd) => ret = Day(2000 + yy, mm, dd)

C1_Witness ==
    /\ call = [op |-> "normalizeDate", arg |-> Str(DDMMYY(10, 3, 25))]
    /\ ret = Day(2025, 3, 10)

\* C2: a DD-MM-YY string whose day is outside 1..31, whose month is outside
\* 1..12 or whose day does not exist in that month of 2000+YY is unparseable
\* for normalizeDate as a whole: the strict rule and every fallback reject it.
C2_InvalidStrictIsNull ==
    StrictFormCall =>
        LET dd == FieldAt(call.arg.s, 1)
            mm == FieldAt(call.arg.s, 4)
            yy == FieldAt(call.arg.s, 7)
        IN ~DayExists(2000 + yy, mm, dd) => ret = Null

C2_Witness ==
    /\ call.op = "normalizeDate"
    /\ call.arg \in {Str(DDMMYY(32, 1, 25)), Str(DDMMYY(10, 13, 25)),
                     Str(DDMMYY(31, 4, 25)), Str(DDMMYY(29, 2, 25))}
    /\ ret = Null

\* the calendar day a serial encodes: 25569 is 1970-01-01, the fraction is
\* the time of day
EncodedDay(v) == CivilFromDays(v.whole - 25569)

\* C3: for a serial s in the window 25000 < s < 100000, normalizeDate(s) is
\* normalizeDate of the DD-MM-YY string formatted from the day s encodes.
C3_NumericEqualsString ==
    (call.op = "normalizeDate" /\ call.arg.t = "num"
        /\ (call.arg.whole > 25000 \/ (call.arg.whole = 25000 /\ call.arg.min > 0))
        /\ call.arg.whole < 100000) =>
        LET e == EncodedDay(call.arg)
        IN ret = normalizeDate(Str(DDMMYY(e.d, e.m, e.y % 100)), tz, now)

(***************************************************************************)
(* Calls of parseItemsFromOfflineCell.                                     *)
(***************************************************************************)
MaxCellLen == 5

CellAlphabet == {"A", " ", "-", "0", "2", ",", "\"", "\n"}

Cells == UNION {[1..k -> CellAlphabet] : k \in 0..MaxCellLen}

CallParseItemsFromOfflineCell ==
    /\ call = NoCall
    /\ \E cell \in Cells :
        /\ call' = [op |-> "parseItemsFromOfflineCell", arg |-> cell]
        /\ ret' = parseItemsFromOfflineCell(cell)
        /\ UNCHANGED <<tz, now, events, pending, uploads>>

NextItems == CallParseItemsFromOfflineCell

SpecItems == InitFixedEnv /\ [][NextItems]_vars

(***************************************************************************)
(* Properties of the offline-items grammar (checked under SpecItems).      *)
(***************************************************************************)
\* the comma at position i lies between an opening double quote and the
\* quote that closes it (quotes pair up from the left)
EnclosedInQuotes(cell, i) ==
    /\ QuoteCount(SubSeq(cell, 1, i - 1)) % 2 = 1
    /\ QuoteCount(SubSeq(cell, i + 1, Len(cell))) >= 1

\* positions of the separators: newlines, and commas not enclosed in quotes
IsSeparator(cell, i) ==
    \/ cell[i] = "\n"
    \/ cell[i] = "," /\ ~EnclosedInQuotes(cell, i)

\* the fragments of the cell between separators, from position i on
RECURSIVE FragmentsFrom(_, _, _)
FragmentsFrom(cell, i, cur) ==
    IF i > Len(cell) THEN <<cur>>
    ELSE IF IsSeparator(cell, i) THEN <<cur>> \o FragmentsFrom(cell, i + 1, <<>>)
    ELSE FragmentsFrom(cell, i + 1, Append(cur, cell[i]))

\* a fragment ends in " - N": blank, dash, blank, then digits to the end
EndsInQuantity(f, k) ==
    /\ k >= 1 /\ Len(f) >= k + 3
    /\ \A j \in (Len(f) - k + 1)..Len(f) : IsDigit(f[j])
    /\ f[Len(f) - k] = " " /\ f[Len(f) - k - 1] = "-" /\ f[Len(f) - k - 2] = " "

\* (name, quantity) of one non-empty fragment as the grammar states it
ExpectedItem(f) ==
    IF \E k \in 1..Len(f) : EndsInQuantity(f, k)
    THEN LET k == CHOOSE k \in 1..Len(f) : EndsInQuantity(f, k)
         IN <<Trim(SubSeq(f, 1, Len(f) - k - 3)), DigitsToNat(SubSeq(f, Len(f) - k + 1, Len(f)))>>
    ELSE <<f, 1>>

RECURSIVE ExpectedItems(_)
ExpectedItems(frags) ==
    IF frags = <<>> THEN <<>>
    ELSE LET f == Trim(Head(frags))
         IN (IF f = <<>> THEN <<>> ELSE <<ExpectedItem(f)>>) \o ExpectedItems(Tail(frags))

NameQty(items) == [i \in 1..Len(items) |-> <<items[i].name, items[i].quantity>>]

\* C10: parseItemsFromOfflineCell splits the cell on newlines and on commas
\* not enclosed in quotes and emits, in order, one item per non-empty
\* fragment: quantity N and the name without the suffix for a fragment
\* ending in " - N", quantity 1 and the whole fragment otherwise.
C10_OfflineGrammar ==
    call.op = "parseItemsFromOfflineCell" =>
        NameQty(ret) = ExpectedItems(FragmentsFrom(call.arg, 1, <<>>))

\* the same statement over the cells whose double quotes are balanced
C10_OfflineGrammarBalanced ==
    (call.op = "parseItemsFromOfflineCell" /\ QuoteCount(call.arg) % 2 = 0) =>
        NameQty(ret) = ExpectedItems(FragmentsFrom(call.arg, 1, <<>>))

(***************************************************************************)
(* Calls of getValueFromRow.                                               *)
(***************************************************************************)
MaxHeaderLen == 3
MaxCandidates == 2

HeaderAlphabet == {"A", "a", "_", " "}

\* every header spelling over the alphabet, and some with '-', BOM, tab and
\* a capital sigma at the end of a word
HeaderStrings ==
    UNION {[1..k -> HeaderAlphabet] : k \in 1..MaxHeaderLen}
        \cup { <<"a", "-", "a">>, <<BOM, "a">>, <<"a", BOM, "a">>,
               <<"a", "\t", " ", "a">>, <<"b">>, <<"Α", "Σ">>, <<"α", "σ">> }

OtherColumns == { <<"a", " ", "a">>, <<"A">>, <<"b", "_">> }

CandidateSpellings == { <<"A">>, <<"a", "_", "A">>, <<"B">>, <<"a", "a">>, <<"α", "ς">> }

CandidateLists ==
    UNION {[1..k -> CandidateSpellings] : k \in 0..MaxCandidates}

Cell1 == Str(<<"1">>)
Cell2 == Str(<<"2">>)

\* rows of one or two columns with distinct keys
HeaderRows ==
    {<< <<h, Cell1>> >> : h \in HeaderStrings}
        \cup UNION {{<< <<h, Cell1>>, <<o, Cell2>> >> : o \in OtherColumns \ {h}} :
                        h \in HeaderStrings}
        \cup UNION {{<< <<o, Cell2>>, <<h, Cell1>> >> : o \in OtherColumns \ {h}} :
                        h \in HeaderStrings}

CallGetValueFromRow ==
    /\ call = NoCall
    /\ \E row \in HeaderRows, cands \in CandidateLists :
        /\ call' = [op |-> "getValueFromRow", row |-> row, candidates |-> cands]
        /\ ret' = getValueFromRow(row, cands)
        /\ UNCHANGED <<tz, now, events, pending, uploads>>

NextHeader == CallGetValueFromRow

SpecHeader == InitFixedEnv /\ [][NextHeader]_vars

(***************************************************************************)
(* Properties of header resolution (checked under SpecHeader).             *)
(***************************************************************************)
\* the character a character of the lowercased header stands for in the
\* normalized form: '_' and '-' read as a blank
FoldChar(c) ==
    IF c \in {"_", "-"} \/ IsSpace(c) THEN " " ELSE c

\* the words of a lowercased header: BOM removed, then the maximal runs of
\* characters other than blanks, '_' and '-'
RECURSIVE WordsOf(_, _)
WordsOf(s, cur) ==
    IF s = <<>> THEN (IF cur = <<>> THEN <<>> ELSE <<cur>>)
    ELSE IF Head(s) = BOM THEN WordsOf(Tail(s), cur)
    ELSE IF FoldChar(Head(s)) = " "
         THEN (IF cur = <<>> THEN <<>> ELSE <<cur>>) \o WordsOf(Tail(s), <<>>)
    ELSE WordsOf(Tail(s), Append(cur, FoldChar(Head(s))))

\* two spellings have equal normalized forms
SameHeader(a, b) == WordsOf(toLowerCase(a), <<>>) = WordsOf(toLowerCase(b), <<>>)

CandidateMatches(row, c) == \E j \in 1..Len(row) : SameHeader(row[j][1], c)

\* C9: getValueFromRow returns the cell of a header whose normalized form
\* equals that of the first candidate, in list order, that matches any
\* header of the row, and undefined when no candidate matches.
C9_FirstMatchingCandidate ==
    call.op = "getValueFromRow" =>
        LET row == call.row
            cands == call.candidates
            hits == {i \in 1..Len(cands) : CandidateMatches(row, cands[i])}
        IN IF hits = {} THEN ret = Undefined
           ELSE LET first == CHOOSE i \in hits : \A k \in hits : i <= k
                IN \E j \in 1..Len(row) :
                       SameHeader(row[j][1], cands[first]) /\ ret = row[j][2]

\* a second candidate matches one column and the first candidate another
C9_Witness ==
    /\ call.op = "getValueFromRow"
    /\ Len(call.candidates) = 2 /\ Len(call.row) = 2
    /\ CandidateMatches(call.row, call.candidates[1])
    /\ CandidateMatches(call.row, call.candidates[2])
    /\ ~SameHeader(call.candidates[1], call.candidates[2])
    /\ call.row[1][1] # call.candidates[1] /\ call.row[2][1] # call.candidates[1]
    /\ ret \in {Cell1, Cell2}

(***************************************************************************)
(* Uploads: handleFile starts a read, its onload callback ingests the      *)
(* rows.  A file is the sequence `json` of its rows; all rows of a file    *)
(* have the keys of the sheet's header line (sheet_to_json with defval).   *)
(***************************************************************************)
MaxFrags == 3
MaxUploads == 2

LayoutExact == <<S_OrderNumber, S_DeliveryDate, S_OfflineOrderItems>>
LayoutSynonyms == <<<<"o", "r", "d", "e", "r", "_", "n", "o">>,
                    <<" ", "D", "E", "L", "I", "V", "E", "R", "Y", " ", " ", "d", "a", "t", "e">>, S_Items>>
LayoutNoOrder == <<<<"C", "u", "s", "t", "o", "m", "e", "r", " ", "N", "a", "m", "e">>,
                   S_DeliveryDate, S_Items>>
LayoutNoDelivery == <<S_OrderNumber, <<"O", "r", "d", "e", "r", " ", "D", "a", "t", "e">>, S_Items>>

Layouts == {LayoutExact, LayoutSynonyms, LayoutNoOrder, LayoutNoDelivery}

\* a row: the order id, delivery date and items cells under the layout's headers
MakeRow(layout, id, delivery, items) ==
    << <<layout[1], id>>, <<layout[2], delivery>>, <<layout[3], items>> >>

Tag10 == DDMMYY(10, 3, 25)
Tag11 == DDMMYY(11, 3, 25)
TagBad == DDMMYY(32, 1, 25)
BodyQty == <<"A", " ", "-", " ", "2">>
BodyQuote == <<"\"", "B">>

\* fragments of an items cell: with or without a date tag
FragmentKinds ==
    { Tag10 \o <<"-">> \o BodyQty, Tag10 \o <<"-">> \o BodyQuote,
      Tag11 \o <<"-">> \o BodyQty, Tag11 \o <<"-">> \o BodyQuote,
      TagBad \o <<"-">> \o BodyQty, BodyQty }

RECURSIVE JoinWith(_, _)
JoinWith(frags, sep) ==
    IF frags = <<>> THEN <<>>
    ELSE IF Len(frags) = 1 THEN frags[1]
    ELSE frags[1] \o <<sep>> \o JoinWith(Tail(frags), sep)

\* cells of up to MaxFrags fragments, separated by commas or by newlines
ItemCells ==
    {JoinWith(fs, sep) :
        fs \in UNION {[1..k -> FragmentKinds] : k \in 0..MaxFrags},
        sep \in {",", "\n"}}

\* "10-03-25-SKU-A - 1,10-03-25-SKU-B - 1,11-03-25-SKU-C - 1"
ExampleCell ==
    Tag10 \o <<"-", "S", "K", "U", "-", "A", " ", "-", " ", "1", ",">>
        \o Tag10 \o <<"-", "S", "K", "U", "-", "B", " ", "-", " ", "1", ",">>
        \o Tag11 \o <<"-", "S", "K", "U", "-", "C", " ", "-", " ", "1">>

SmallCells ==
    { <<>>, BodyQty, Tag10 \o <<"-">> \o BodyQty, TagBad \o <<"-">> \o BodyQty,
      ExampleCell }

IdA1 == Str(<<"A", "1">>)
IdB2 == Str(<<"B", "2">>)
Empty == Str(<<>>)
Delivery12 == Str(DDMMYY(12, 3, 25))
Delivery13 == Str(DDMMYY(13, 3, 25))

OrderIdValues == {Empty, IdA1, Num(0, 0), Num(7, 0)}
DeliveryValues == {Empty, Delivery12, Str(<<"x">>), Str(TagBad), Num(45726, 0)}

\* rows under the exact headers: every items cell with a fixed id and date
RichRows == {MakeRow(LayoutExact, IdA1, Delivery12, Str(c)) : c \in ItemCells}

\* every id and delivery date with a few items cells
VariedRows ==
    {MakeRow(LayoutExact, id, dv, Str(c)) :
        id \in OrderIdValues, dv \in DeliveryValues, c \in SmallCells}

RowB2 == MakeRow(LayoutExact, IdB2, Delivery13, Empty)

OtherRows ==
    { RowB2,
      MakeRow(LayoutExact, Empty, Delivery13, Str(BodyQty)),
      MakeRow(LayoutExact, IdB2, Empty,
              Str(Tag11 \o <<"-">> \o BodyQty \o <<"\n">> \o Tag10 \o <<"-">> \o BodyQty)) }

Files ==
    {<<r>> : r \in RichRows \cup VariedRows}
        \* "0009-13-275760": Date.parse reads 13 September 275760, the day
        \* of the last instant of a Date
        \cup {<<MakeRow(LayoutExact, IdB2,
                        Str(<<"0", "0", "0", "9", "-", "1", "3", "-", "2", "7", "5", "7", "6",
                              "0">>),
                        Empty)>>}
        \cup {<<r, RowB2>> : r \in RichRows}
        \cup {<<r, o>> : r \in VariedRows, o \in OtherRows}
        \cup {<<o, r>> : r \in VariedRows, o \in OtherRows}

\* the files that may follow or precede another upload
SmallFiles ==
    {<<>>}
        \cup {<<MakeRow(l, IdA1, Delivery12, Str(BodyQty))>> : l \in Layouts}
        \cup {<<MakeRow(l, IdA1, Delivery12,
                        Str(Tag10 \o <<"-">> \o BodyQty \o <<",">> \o Tag11 \o <<"-">> \o BodyQty)),
                MakeRow(l, Empty, Delivery13, Str(BodyQty))>> : l \in Layouts}

RemoveAt(s, i) == SubSeq(s, 1, i - 1) \o SubSeq(s, i + 1, Len(s))

\* handleFile(file): a FileReader is created and the read is started.  A
\* file of the large set is uploaded alone; sequences of uploads are made of
\* the small files.
HandleFile ==
    /\ uploads < MaxUploads
    /\ \E f \in (IF uploads = 0 THEN Files \cup SmallFiles
                 ELSE IF call.file \in SmallFiles THEN SmallFiles ELSE {}) :
        /\ pending' = Append(pending, [file |-> f, n |-> uploads + 1])
        /\ uploads' = uploads + 1
        /\ call' = [op |-> "handleFile", file |-> f, n |-> uploads + 1, before |-> events]
        /\ UNCHANGED <<tz, now, ret, events>>

\* reader.onload of one of the reads in flight
OnLoad ==
    \E i \in 1..Len(pending) :
      \E accepted \in {BatchAccepted(pending[i].file)} :
        \E done \in {IF accepted THEN RowIterations(pending[i].file, tz, now)
                      ELSE [rows |-> pending[i].file]} :
          /\ events' = IF accepted THEN EventsAfter(done.events, done.resources) ELSE events
          /\ pending' = RemoveAt(pending, i)
          /\ call' = [op |-> "onload", file |-> pending[i].file, n |-> pending[i].n,
                      before |-> events, rows |-> done.rows]
          /\ ret' = [alerted |-> ~accepted]
          /\ UNCHANGED <<tz, now, uploads>>

NextIngest == HandleFile \/ OnLoad

\* the rows read no two-digit year against the current date
InitIngest == Init /\ now = 2026

SpecIngest == InitIngest /\ [][NextIngest]_vars

(***************************************************************************)
(* Properties of event materialization (checked under SpecIngest).         *)
(***************************************************************************)
\* the last step was the onload of a batch that passed the column checks
Ingested == call.op = "onload" /\ ~ret.alerted

\* the header of a column is spelled as one of the synonyms
IsColumnOf(header, synonyms) ==
    \E i \in 1..Len(synonyms) : SameHeader(header, synonyms[i])

\* a column of the row is an order identifier column and its cell is not empty
HasOrderId(r) ==
    \E j \in 1..Len(r) : IsColumnOf(r[j][1], orderNumberSynonyms) /\ r[j][2] # Empty

\* the row has an order id the loop recognizes
RecognizedOrderId(r) == ~Falsy(getValueFromRow(r, orderNumberSynonyms))

Fragments(r) == splitItemsList(AllItemsCell(r))

HasTaggedFragment(r) ==
    \E i \in 1..Len(Fragments(r)) : HasDateTag(Fragments(r)[i])

TagOf(f) == SubSeq(f, 1, 8)
RestOf(f) == SubSeq(f, 10, Len(f))

\* the distinct date tags of the fragments, in the order of first appearance
RECURSIVE FirstSeenTags(_, _)
FirstSeenTags(frags, i) ==
    IF i > Len(frags) THEN <<>>
    ELSE (IF /\ HasDateTag(frags[i])
             /\ \A j \in 1..(i - 1) : ~(HasDateTag(frags[j]) /\ TagOf(frags[j]) = TagOf(frags[i]))
          THEN <<TagOf(frags[i])>> ELSE <<>>)
         \o FirstSeenTags(frags, i + 1)

RECURSIVE Flatten(_)
Flatten(ss) == IF ss = <<>> THEN <<>> ELSE Head(ss) \o Flatten(Tail(ss))

\* the items of the fragments that carry the tag: tag stripped, each parsed
\* by the offline-items grammar
ItemsTagged(frags, tag) ==
    Flatten([i \in 1..Len(frags) |->
        IF HasDateTag(frags[i]) /\ TagOf(frags[i]) = tag
        THEN NameQty(parseItemsFromOfflineCell(RestOf(frags[i])))
        ELSE <<>>])

\* the item list injected into an event, <<>> when there is none
InjectedItems(e) ==
    IF \E j \in 1..Len(e.resource) : e.resource[j][1] = S_ItemsForEvent
    THEN NameQty((CHOOSE kv \in {e.resource[j] : j \in 1..Len(e.resource)} :
                      kv[1] = S_ItemsForEvent)[2].items)
    ELSE <<>>

\* what is compared of an event: order id, day, injected items
DayAndItems(es) == [i \in 1..Len(es) |-> <<es[i].title, es[i].start.day, InjectedItems(es[i])>>]
TitleAndDay(es) == [i \in 1..Len(es) |-> <<es[i].title, es[i].start.day>>]

\* the events a row with date tags is to yield: one per tag that normalizes
ExpectedGroupEvents(r) ==
    LET tags == FirstSeenTags(Fragments(r), 1)
        title == StringOf(getValueFromRow(r, orderNumberSynonyms))
    IN Flatten([g \in 1..Len(tags) |->
           IF normalizeDate(Str(tags[g]), tz, now) = Null THEN <<>>
           ELSE << <<title, normalizeDate(Str(tags[g]), tz, now),
                     ItemsTagged(Fragments(r), tags[g])>> >>])

ExpectedC4(r) ==
    IF RecognizedOrderId(r) /\ HasTaggedFragment(r) THEN ExpectedGroupEvents(r)
    ELSE DayAndItems(RowEvents(r, tz, now))

\* C4: a row with a recognized order id whose items cell has date-tagged
\* fragments yields one event per distinct tag that normalizes, and the item
\* list of each event is made of exactly the fragments carrying its tag
\* (tag stripped, parsed by the offline-items grammar).
C4_EventPerTagWithItsFragments ==
    Ingested =>
        DayAndItems(events) = Flatten([k \in 1..Len(call.file) |-> ExpectedC4(call.file[k])])

\* the same statement for the items cells without a double quote
C4_QuoteFreeCells ==
    (Ingested /\ \A k \in 1..Len(call.file) : QuoteCount(AllItemsCell(call.file[k])) = 0) =>
        DayAndItems(events) = Flatten([k \in 1..Len(call.file) |-> ExpectedC4(call.file[k])])

\* order id and day of the events a row with date tags is to yield
ExpectedGroupDays(r) ==
    LET tags == FirstSeenTags(Fragments(r), 1)
        title == StringOf(getValueFromRow(r, orderNumberSynonyms))
    IN Flatten([g \in 1..Len(tags) |->
           LET d == normalizeDate(Str(tags[g]), tz, now)
           IN IF d = Null THEN <<>> ELSE << <<title, d>> >>])

ExpectedC5(r) ==
    IF RecognizedOrderId(r) /\ HasTaggedFragment(r) THEN ExpectedGroupDays(r)
    ELSE TitleAndDay(RowEvents(r, tz, now))

\* C5: the events of an earlier row precede those of a later row, and the
\* events of one row are in the order in which their date tags first appear
\* among the fragments of the items cell, not in date order.
C5_FirstSeenOrder ==
    Ingested =>
        TitleAndDay(events) = Flatten([k \in 1..Len(call.file) |-> ExpectedC5(call.file[k])])

\* a later row gave 11 March before 10 March, after the event of an earlier row
C5_Witness ==
    /\ Ingested
    /\ Len(call.file) = 2 /\ Len(events) = 3
    /\ events[1].title = <<"A", "1">>
    /\ TitleAndDay(SubSeq(events, 2, 3)) =
           << <<(<<"B", "2">>), Day(2025, 3, 11)>>, <<(<<"B", "2">>), Day(2025, 3, 10)>> >>

\* C6: a row whose order id is absent or empty under every synonym yields no
\* event, whatever its other cells hold, and the rows after it are processed:
\* the events are those of the batch without such rows.
C6_RowsWithoutOrderIdSkipped ==
    Ingested => events = EventsOut(SelectSeq(call.file, HasOrderId), tz, now)

\* a row without order id, with items and a delivery date, before a row that
\* yields events
C6_Witness ==
    /\ Ingested
    /\ Len(call.file) = 2
    /\ ~HasOrderId(call.file[1])
    /\ AllItemsCell(call.file[1]) # <<>>
    /\ normalizeDate(getValueFromRow(call.file[1], deliveryDateSynonyms), tz, now) # Null
    /\ Len(events) >= 1

ExpectedC7(r) ==
    IF RecognizedOrderId(r) /\ ~HasTaggedFragment(r)
    THEN LET d == normalizeDate(getValueFromRow(r, deliveryDateSynonyms), tz, now)
         IN IF d = Null THEN <<>>
            ELSE << <<StringOf(getValueFromRow(r, orderNumberSynonyms)), d>> >>
    ELSE TitleAndDay(RowEvents(r, tz, now))

\* C7: a row with a recognized order id and no date-tagged fragment yields
\* exactly one event, dated normalizeDate(delivery date field), when that
\* field normalizes, and no event at all when it does not.
C7_SingleEventOrNone ==
    Ingested =>
        TitleAndDay(events) = Flatten([k \in 1..Len(call.file) |-> ExpectedC7(call.file[k])])

\* one row gave its single event and another, whose date is unparseable, none
C7_Witness ==
    /\ Ingested
    /\ Len(call.file) = 2 /\ Len(events) = 1
    /\ \A k \in 1..2 : RecognizedOrderId(call.file[k]) /\ ~HasTaggedFragment(call.file[k])
    /\ getValueFromRow(call.file[1], deliveryDateSynonyms) \in {Str(<<"x">>), Str(TagBad)}
    /\ events[1].start.day = Day(2025, 3, 13)

\* the first row of the batch has an order id column and a delivery date column
HasRequiredColumns(json) ==
    /\ Len(json) > 0
    /\ \E j \in 1..Len(json[1]) : IsColumnOf(json[1][j][1], orderNumberSynonyms)
    /\ \E j \in 1..Len(json[1]) : IsColumnOf(json[1][j][1], deliveryDateSynonyms)

\* C8: when the batch has no order id column or no delivery date column
\* under any synonym, no row is processed: the event list is the one held
\* before the upload.
C8_MissingColumnHaltsBatch ==
    (call.op = "onload" /\ ~HasRequiredColumns(call.file)) => events = call.before

\* a batch with rows but without a required column, loaded over earlier events
C8_Witness ==
    /\ call.op = "onload"
    /\ Len(call.file) > 0 /\ ~HasRequiredColumns(call.file)
    /\ call.before # <<>>
    /\ events = call.before

(***************************************************************************)
(* Calls of parseItemsFromNotes.                                           *)
(***************************************************************************)
MaxNotesLen == 5

NotesAlphabet == {"A", " ", "-", "*", "0", "2", "x", "X", "\n"}

\* "- 2 x Item", "1 x CB 200", "* Item Name" (the shapes named at line 266),
\* and lines with a carriage return
NotesExamples ==
    { <<"-", " ", "2", " ", "x", " ", "I", "t", "e", "m">>,
      <<"1", " ", "x", " ", "C", "B", " ", "2", "0", "0">>,
      <<"*", " ", "I", "t", "e", "m", " ", "N", "a", "m", "e">>,
      <<"2", "x", "A", "\r", "\n", "-", "A", "\n", "A">>,
      <<"-", "A", "\r", "A">>,
      <<"A", "\n", "-", "2", "x", "A">> }

NotesCells == UNION {[1..k -> NotesAlphabet] : k \in 0..MaxNotesLen} \cup NotesExamples

CallParseItemsFromNotes ==
    /\ call = NoCall
    /\ \E cell \in NotesCells :
        /\ call' = [op |-> "parseItemsFromNotes", arg |-> cell]
        /\ ret' = parseItemsFromNotes(cell)
        /\ UNCHANGED <<tz, now, events, pending, uploads>>

NextNotes == CallParseItemsFromNotes

SpecNotes == InitFixedEnv /\ [][NextNotes]_vars

(***************************************************************************)
(* Properties of the notes grammar (checked under SpecNotes).              *)
(***************************************************************************)
\* t reads <N> x <name>: the digits t[1..d], blanks, an 'x' at position x,
\* and a name after it on the same line
ReadsCountXName(t, d, x) ==
    /\ 1 <= d /\ d < x /\ x < Len(t)
    /\ \A p \in 1..d : IsDigit(t[p])
    /\ \A p \in (d + 1)..(x - 1) : IsSpace(t[p])
    /\ t[x] \in {"x", "X"}
    /\ DotPlus(Trim(SubSeq(t, x + 1, Len(t))))

IsCountXName(t) == \E d \in 1..Len(t), x \in 1..Len(t) : ReadsCountXName(t, d, x)

\* the (name, quantity) pair read from <N> x <name>
CountXNamePair(t) ==
    LET dx == CHOOSE dx \in (1..Len(t)) \X (1..Len(t)) : ReadsCountXName(t, dx[1], dx[2])
    IN <<Trim(SubSeq(t, dx[2] + 1, Len(t))), DigitsToNat(SubSeq(t, 1, dx[1]))>>

StartsWithMarker(s) == s # <<>> /\ s[1] \in {"-", "*"}

\* the pairs a notes line is to contribute, the three patterns tried in order
ExpectedNotesLine(line) ==
    LET s == Trim(line)
        afterMarker == Trim(Tail(s))
    IN IF s = <<>> THEN <<>>
       ELSE IF StartsWithMarker(s) /\ IsCountXName(afterMarker)
            THEN <<CountXNamePair(afterMarker)>>
       ELSE IF IsCountXName(s) THEN <<CountXNamePair(s)>>
       ELSE IF StartsWithMarker(s) /\ DotPlus(afterMarker) THEN << <<afterMarker, 1>> >>
       ELSE <<>>

\* C11: parseItemsFromNotes gives, line by line, the item of the first of
\* the patterns "<marker> <N> x <name>", "<N> x <name>", "<marker> <name>"
\* that the line matches, with quantity N for the first two and 1 for the
\* third; a line matching no pattern contributes nothing.
C11_NotesPatternsInOrder ==
    call.op = "parseItemsFromNotes" =>
        NameQty(ret) = Flatten([i \in 1..Len(SplitLines(call.arg, 1, <<>>)) |->
                                    ExpectedNotesLine(SplitLines(call.arg, 1, <<>>)[i])])

\* "-2xA" matches the first and the third pattern and is read by the first;
\* the line "A" before it matches none
C11_Witness ==
    /\ call.op = "parseItemsFromNotes"
    /\ \E i \in 1..Len(call.arg) :
        /\ call.arg[i] = "\n"
        /\ ExpectedNotesLine(SubSeq(call.arg, 1, i - 1)) = <<>>
        /\ Trim(SubSeq(call.arg, 1, i - 1)) # <<>>
        /\ MatchMarker(SubSeq(call.arg, i + 1, Len(call.arg))).matched
        /\ MatchMarkerCountX(SubSeq(call.arg, i + 1, Len(call.arg))).matched
    /\ Len(ret) = 1 /\ ret[1].quantity = 2

(***************************************************************************)
(* Calls of classifySkuAndTitle.  The names are those the parsers give:    *)
(* trimmed and not empty.                                                  *)
(***************************************************************************)
MaxNameLen == 5

NameAlphabet == {"A", "B", "a", "1", "-", " "}

NameExamples ==
    { <<"P", "K", "G", "-", "B", "O", "X", "-", "D", "e", "l", "u", "x", "e", " ", "H", "a", "m", "p", "e", "r">>,
      <<"A", "B", "C", "1", "2", "3">> }

ItemNames ==
    {n \in UNION {[1..k -> NameAlphabet] : k \in 1..MaxNameLen} : Trim(n) = n}
        \cup NameExamples

CallClassifySkuAndTitle ==
    /\ call = NoCall
    /\ \E name \in ItemNames :
        /\ call' = [op |-> "classifySkuAndTitle", arg |-> name]
        /\ ret' = classifySkuAndTitle(name)
        /\ UNCHANGED <<tz, now, events, pending, uploads>>

NextClassify == CallClassifySkuAndTitle

SpecClassify == InitFixedEnv /\ [][NextClassify]_vars

(***************************************************************************)
(* Properties of classification (checked under SpecClassify).              *)
(***************************************************************************)
\* the pieces of s between its hyphens
RECURSIVE HyphenPieces(_, _)
HyphenPieces(s, cur) ==
    IF s = <<>> THEN <<cur>>
    ELSE IF Head(s) = "-" THEN <<cur>> \o HyphenPieces(Tail(s), <<>>)
    ELSE HyphenPieces(Tail(s), Append(cur, Head(s)))

IsNotBlank(p) == Trim(p) # <<>>

\* the tokens of a name: its hyphen-separated pieces without the whitespace
\* around them, empty pieces left out
TokensOf(name) ==
    LET pieces == SelectSeq(HyphenPieces(name, <<>>), IsNotBlank)
    IN [i \in 1..Len(pieces) |-> Trim(pieces[i])]

\* the positions of the tokens that contain a lowercase letter
LowercaseTokens(tokens) ==
    {i \in 1..Len(tokens) : \E p \in 1..Len(tokens[i]) : tokens[i][p] \in LowerSet}

\* C14: the tokens before the first one with a lowercase letter form the
\* SKU, joined with "-"; that token and every token after it form the
\* title, joined with " - "; without such a token the title is the name
\* itself, so the title is never empty.
C14_SkuThenTitle ==
    call.op = "classifySkuAndTitle" =>
        LET tokens == TokensOf(call.arg)
            lower == LowercaseTokens(tokens)
            first == IF lower = {} THEN Len(tokens) + 1
                     ELSE CHOOSE i \in lower : \A j \in lower : i <= j
        IN /\ ret.sku = JoinBy(SubSeq(tokens, 1, first - 1), <<"-">>)
           /\ ret.title = IF lower = {} THEN call.arg
                          ELSE JoinBy(SubSeq(tokens, first, Len(tokens)), <<" ", "-", " ">>)
           /\ ret.title # <<>>

\* an all-caps token after the first token with a lowercase letter stays in
\* the title
C14_Witness ==
    /\ call.op = "classifySkuAndTitle"
    /\ call.arg = <<"A", "-", "a", "-", "B">>
    /\ ret = [sku |-> <<"A">>, title |-> <<"a", " ", "-", " ", "B">>]

(***************************************************************************)
(* Calls of getParsedLineItems and computeStats on the resource of an      *)
(* event.  The resources are those the ingest of a one-row sheet gives:    *)
(* the items under the offline column, with or without date tags, or in    *)
(* the notes column.                                                       *)
(***************************************************************************)
MaxItems == 2

StatNames == { <<"X">>, <<"x">>, <<"B", "O", "X">>, <<"B", "O", "X", " ", "A">> }

\* the count written after a name: none, 0 or 2
WrittenCounts == {<<>>, <<"0">>, <<"2">>}

ItemTexts == StatNames \X WrittenCounts

\* a code as a prefix of a longer token, in a later token, in the title;
\* the items (BOX, 2), (ABC, 3)
ItemListExamples ==
    { << <<<<"B", "O", "X", "E", "S">>, <<"2">>>> >>,
      << <<<<"B", "O", "X", "1">>, <<"2">>>> >>,
      << <<<<"A", "-", "B", "O", "X">>, <<"2">>>> >>,
      << <<<<"a", "-", "B", "O", "X">>, <<"2">>>> >>,
      << <<<<"P", "K", "G", "-", "B", "O", "X", "-", "D", "e", "l", "u", "x", "e", " ", "H", "a", "m", "p", "e", "r">>, <<"2">>>> >>,
      << <<<<"B", "O", "X">>, <<"2">>>>, <<<<"A", "B", "C">>, <<"3">>>> >> }

ItemLists == UNION {[1..k -> ItemTexts] : k \in 0..MaxItems} \cup ItemListExamples

\* "<name> - <N>" or "<name>"
OfflineFragment(it) ==
    IF it[2] = <<>> THEN it[1] ELSE it[1] \o <<" ", "-", " ">> \o it[2]

\* "<N> x <name>" or "- <name>"
NotesLine(it) ==
    IF it[2] = <<>> THEN <<"-", " ">> \o it[1]
    ELSE it[2] \o <<" ", "x", " ">> \o it[1]

PlainRow(its) ==
    << <<S_OrderNumber, IdA1>>, <<S_DeliveryDate, Delivery12>>,
       <<S_OfflineOrderItems,
         Str(JoinBy([i \in 1..Len(its) |-> OfflineFragment(its[i])], <<",", " ">>))>> >>

TaggedRow(its) ==
    << <<S_OrderNumber, IdA1>>, <<S_DeliveryDate, Delivery12>>,
       <<S_OfflineOrderItems,
         Str(JoinBy([i \in 1..Len(its) |-> Tag10 \o <<"-">> \o OfflineFragment(its[i])],
                    <<",", " ">>))>> >>

NotesRow(its) ==
    << <<S_OrderNumber, IdA1>>, <<S_DeliveryDate, Delivery12>>,
       <<S_Items, Empty>>,
       <<S_Notes, Str(JoinBy([i \in 1..Len(its) |-> NotesLine(its[i])], <<"\n">>))>> >>

\* a primary items cell: empty, blank, a lone separator, items, a number
PrimaryCells ==
    { Empty, Str(<<" ">>), Str(<<",">>), Str(<<"X", " ", "-", " ", "2">>),
      Str(<<"X", ",", "Y", " ", "-", " ", "0">>), Num(5, 0) }

\* a notes cell: empty, lines of the grammar, a line outside the grammar
NotesTexts ==
    { Empty, Str(<<" ">>), Str(<<"3", " ", "x", " ", "Y">>),
      Str(<<"-", " ", "X", "\n", "3", "x", "Z">>), Str(<<"n", "o", "n", "e">>) }

\* a row with a primary items column and a notes column
MixedRow(header, cell, notes) ==
    << <<S_OrderNumber, IdA1>>, <<S_DeliveryDate, Delivery12>>,
       <<header, cell>>, <<S_Notes, notes>> >>

MixedRows ==
    {MixedRow(h, c, n) : h \in {S_OfflineOrderItems, S_AddOrder}, c \in PrimaryCells,
                         n \in NotesTexts}

\* a row with two items columns, each empty or not
TwoColumnRows ==
    {<< <<S_OrderNumber, IdA1>>, <<S_DeliveryDate, Delivery12>>,
        <<S_OfflineOrderItems, a>>, <<S_AddOrder, b>> >> :
        a, b \in {Empty, Str(<<"X", " ", "-", " ", "2">>), Str(<<"Y">>)}}

StatSheetRows ==
    UNION {{PlainRow(its), TaggedRow(its), NotesRow(its)} : its \in ItemLists}
        \cup MixedRows \cup TwoColumnRows

\* event.resource of the event of a one-row sheet
ResourceOf(r) == EventsOut(<<r>>, 0, 2026)[1].resource

EventResources(rows) == {ResourceOf(r) : r \in rows}

CallGetParsedLineItems ==
    /\ call = NoCall
    /\ \E row \in EventResources(StatSheetRows) :
        /\ call' = [op |-> "getParsedLineItems", row |-> row]
        /\ ret' = getParsedLineItems(row)
        /\ UNCHANGED <<tz, now, events, pending, uploads>>

CallComputeStats ==
    /\ call = NoCall
    /\ \E row \in EventResources(StatSheetRows) :
        /\ call' = [op |-> "computeStats", row |-> row]
        /\ ret' = computeStats(row)
        /\ UNCHANGED <<tz, now, events, pending, uploads>>

NextStats == CallGetParsedLineItems \/ CallComputeStats

SpecStats == InitFixedEnv /\ [][NextStats]_vars

(***************************************************************************)
(* Properties of consolidation and statistics (checked under SpecStats).   *)
(***************************************************************************)
RECURSIVE SumSeq(_)
SumSeq(s) == IF s = <<>> THEN 0 ELSE Head(s) + SumSeq(Tail(s))

\* the pairs have the same name up to case
SameName(a, b) == toLowerCase(a[1]) = toLowerCase(b[1])

\* the positions of the pairs that are the first with their name
FirstOccurrences(pairs) ==
    SelectSeq([i \in 1..Len(pairs) |-> i],
              LAMBDA i : \A j \in 1..(i - 1) : ~SameName(pairs[j], pairs[i]))

\* one item per distinct name, in the order of first occurrence, spelled as
\* the first pair with that name, its quantity the sum over the pairs with
\* that name
ExpectedConsolidation(pairs) ==
    LET firsts == FirstOccurrences(pairs)
    IN [g \in 1..Len(firsts) |->
           <<pairs[firsts[g]][1],
             SumSeq([j \in 1..Len(pairs) |->
                        IF SameName(pairs[j], pairs[firsts[g]]) THEN pairs[j][2] ELSE 0])>>]

\* C12: consolidation in getParsedLineItems gives one item per distinct
\* lowercased name, in the order of first occurrence, spelled as the first
\* pair with that name, its quantity the sum of the quantities of all the
\* pairs with that name.
C12_ConsolidationSums ==
    (call.op = "getParsedLineItems" /\ ~HasInjected(call.row)) =>
        NameQty(ret) = ExpectedConsolidation(NameQty(ParsedItems(call.row)))

\* the same statement for the pairs whose quantities are all at least 1
C12_PositiveQuantities ==
    (/\ call.op = "getParsedLineItems" /\ ~HasInjected(call.row)
     /\ \A i \in 1..Len(ParsedItems(call.row)) : ParsedItems(call.row)[i].quantity >= 1) =>
        NameQty(ret) = ExpectedConsolidation(NameQty(ParsedItems(call.row)))

\* the rearrangements of a sequence
Rearrangements(s) ==
    {[i \in 1..Len(s) |-> s[f[i]]] :
        f \in {g \in [1..Len(s) -> 1..Len(s)] : \A a, b \in 1..Len(s) : g[a] = g[b] => a = b}}

\* the quantity held for each lowercased name
QuantityByName(items) ==
    {<<toLowerCase(items[i].name), items[i].quantity>> : i \in 1..Len(items)}

\* C13 (as stated): consolidating any permutation of the pairs yields the
\* same result, and consolidating the result yields it unchanged.
C13_CommutativeIdempotent ==
    (call.op = "getParsedLineItems" /\ ~HasInjected(call.row)) =>
        /\ \A p \in Rearrangements(ParsedItems(call.row)) : Consolidate(p) = ret
        /\ Consolidate(ret) = ret

\* C13 (amended): consolidating any permutation of the pairs yields the same
\* quantity for each lowercased name (the order of the items and the
\* spelling of a name follow the first occurrences), and consolidating the
\* result yields it unchanged.
C13_SameQuantitiesIdempotent ==
    (call.op = "getParsedLineItems" /\ ~HasInjected(call.row)) =>
        /\ \A p \in Rearrangements(ParsedItems(call.row)) :
               /\ QuantityByName(Consolidate(p)) = QuantityByName(ret)
               /\ Len(Consolidate(p)) = Len(ret)
        /\ Consolidate(ret) = ret

\* ("X", 2), ("x", 1) were merged into ("X", 3); the other order gives ("x", 3)
C13_Witness ==
    /\ call.op = "getParsedLineItems" /\ ~HasInjected(call.row)
    /\ NameQty(ParsedItems(call.row)) = << <<(<<"X">>), 2>>, <<(<<"x">>), 1>> >>
    /\ NameQty(ret) = << <<(<<"X">>), 3>> >>
    /\ \E p \in Rearrangements(ParsedItems(call.row)) :
           NameQty(Consolidate(p)) = << <<(<<"x">>), 3>> >>

\* the first hyphen-separated token of the SKU is one of the packaging codes
FirstTokenIsCode(sku) ==
    \E code \in PackagingCodes : toLowerCase(HyphenPieces(sku, <<>>)[1]) = toLowerCase(code)

\* C15: an item counts toward the hamper total if and only if the first
\* hyphen-separated token of its computed SKU is, ignoring case, exactly one
\* of PKG, HAMP, BOX, BAG.
C15_WholeFirstToken ==
    call.op = "computeStats" =>
        LET items == getParsedLineItems(call.row)
        IN ret.hampers =
              SumSeq([i \in 1..Len(items) |->
                         IF FirstTokenIsCode(classifySkuAndTitle(items[i].name).sku)
                         THEN QuantityOr1(items[i].quantity) ELSE 0])

\* C16: units is the sum of the quantities of the item list of the event,
\* and hampers the sum of the quantities of the items whose classified SKU
\* is a packaging SKU.
C16_UnitsAndHampersAreSums ==
    call.op = "computeStats" =>
        LET items == getParsedLineItems(call.row)
        IN /\ ret.units = SumSeq([i \in 1..Len(items) |-> items[i].quantity])
           /\ ret.hampers =
                 SumSeq([i \in 1..Len(items) |->
                            IF packagingSku(classifySkuAndTitle(items[i].name).sku)
                            THEN items[i].quantity ELSE 0])

\* the same statement for the item lists whose quantities are all at least 1
C16_PositiveQuantities ==
    (/\ call.op = "computeStats"
     /\ \A i \in 1..Len(getParsedLineItems(call.row)) :
            getParsedLineItems(call.row)[i].quantity >= 1) =>
        LET items == getParsedLineItems(call.row)
        IN /\ ret.units = SumSeq([i \in 1..Len(items) |-> items[i].quantity])
           /\ ret.hampers =
                 SumSeq([i \in 1..Len(items) |->
                            IF packagingSku(classifySkuAndTitle(items[i].name).sku)
                            THEN items[i].quantity ELSE 0])

\* C17: every line item of the item list of every event has a quantity of
\* at least 1.
C17_QuantityAtLeastOne ==
    call.op = "getParsedLineItems" =>
        \A i \in 1..Len(ret) : ret[i].quantity >= 1

\* the same statement for the item lists that went through consolidation
C17_ConsolidatedAtLeastOne ==
    (call.op = "getParsedLineItems" /\ ~HasInjected(call.row)) =>
        \A i \in 1..Len(ret) : ret[i].quantity >= 1

(***************************************************************************)
(* Properties of ISO date strings (checked under SpecDate).                *)
(***************************************************************************)
\* the string begins with YYYY-MM-DD naming an existing calendar day
BeginsWithIsoDay(s) ==
    /\ Len(s) >= 10
    /\ \A i \in {1, 2, 3, 4, 6, 7, 9, 10} : IsDigit(s[i])
    /\ s[5] = "-" /\ s[8] = "-"
    /\ DayExists(DigitsToNat(SubSeq(s, 1, 4)), FieldAt(s, 6), FieldAt(s, 9))

IsoCall ==
    call.op = "normalizeDate" /\ call.arg.t = "str" /\ BeginsWithIsoDay(call.arg.s)

\* C18: a string that begins with a valid ISO calendar date YYYY-MM-DD is
\* normalized to the start of exactly that calendar day, whatever follows
\* the first ten characters and whatever the local time zone offset.
C18_IsoPrefixDay ==
    IsoCall =>
        ret = Day(DigitsToNat(SubSeq(call.arg.s, 1, 4)),
                  FieldAt(call.arg.s, 6), FieldAt(call.arg.s, 9))

\* the string is the date alone, or the date and 'T'HH':'mm with an hour
\* below 24, with or without a final Z
IsoDateOrPlainTime(s) ==
    \/ Len(s) = 10
    \/ /\ Len(s) \in {16, 17}
       /\ s[11] = "T" /\ s[14] = ":"
       /\ \A i \in {12, 13, 15, 16} : IsDigit(s[i])
       /\ FieldAt(s, 12) < 24 /\ FieldAt(s, 15) < 60
       /\ Len(s) = 17 => s[17] = "Z"

\* where local time is UTC, the date alone and the date with a time of that
\* day give the day of the prefix
C18_IsoPrefixDayInUTC ==
    (IsoCall /\ tz = 0 /\ IsoDateOrPlainTime(call.arg.s)) =>
        ret = Day(DigitsToNat(SubSeq(call.arg.s, 1, 4)),
                  FieldAt(call.arg.s, 6), FieldAt(call.arg.s, 9))

(***************************************************************************)
(* Properties of the emitted events (checked under SpecIngest).            *)
(***************************************************************************)
\* the calendar days a row resolves to: those of its date tags and of its
\* delivery date field
ResolvedDays(r) ==
    LET frags == Fragments(r)
        tags == {TagOf(frags[j]) : j \in {i \in 1..Len(frags) : HasDateTag(frags[i])}}
    IN ({normalizeDate(Str(tag), tz, now) : tag \in tags}
          \cup {normalizeDate(getValueFromRow(r, deliveryDateSynonyms), tz, now)})
         \ {Null}

\* the event has the title and starts at 00:00:00.000 of one of the days,
\* and ends at 23:59:59.999 of the day it starts in
TitledWithinOneDay(e, title, days) ==
    /\ e.title = title
    /\ e.start.day \in days
    /\ e.start = [day |-> e.start.day, ms |-> 0]
    /\ e.end = [day |-> e.start.day, ms |-> 86399999]
    /\ e.start.ms <= e.end.ms

\* C19: every emitted event has as title the string form of the order id of
\* its row, starts at the start of its resolved calendar day and ends at
\* the end of that same day, so start <= end within one calendar day.
C19_TitleAndOneDay ==
    Ingested =>
        /\ events = Flatten([k \in 1..Len(call.file) |-> RowEvents(call.file[k], tz, now)])
        /\ \A k \in 1..Len(call.file) :
              LET es == RowEvents(call.file[k], tz, now)
                  title == StringOf(getValueFromRow(call.file[k], orderNumberSynonyms))
                  days == ResolvedDays(call.file[k])
              IN \A i \in 1..Len(es) : TitledWithinOneDay(es[i], title, days)

\* the same statement for the events of the days before 12 September 275760,
\* whose last millisecond is in the range of a Date in every time zone
C19_BeforeTheLastDays ==
    Ingested =>
        /\ events = Flatten([k \in 1..Len(call.file) |-> RowEvents(call.file[k], tz, now)])
        /\ \A k \in 1..Len(call.file) :
              LET es == RowEvents(call.file[k], tz, now)
                  title == StringOf(getValueFromRow(call.file[k], orderNumberSynonyms))
                  days == ResolvedDays(call.file[k])
              IN \A i \in 1..Len(es) :
                    DaysFromCivil(es[i].start.day.y, es[i].start.day.m, es[i].start.day.d) < 99999999
                        => TitledWithinOneDay(es[i], title, days)

\* the event of a row whose order id is the number 7
C19_Witness ==
    /\ Ingested
    /\ Len(events) >= 1
    /\ getValueFromRow(call.file[1], orderNumberSynonyms) = Num(7, 0)
    /\ events[1].title = <<"7">>
    /\ events[1].start = startOfDay(Day(2025, 3, 12))
    /\ events[1].end = endOfDay(Day(2025, 3, 12), tz)

(***************************************************************************)
(* Properties of failing date groups (checked under SpecIngest).           *)
(***************************************************************************)
\* the row has several date groups and the tag of one of them does not
\* normalize
HasFailingGroup(r) ==
    LET tags == FirstSeenTags(Fragments(r), 1)
    IN /\ RecognizedOrderId(r)
       /\ Len(tags) >= 2
       /\ \E g \in 1..Len(tags) : normalizeDate(Str(tags[g]), tz, now) = Null

TagNormalizes(tag) == normalizeDate(Str(tag), tz, now) # Null

\* the fragments that carry the tag, the tag stripped
OwnFragments(frags, tag) ==
    LET own == SelectSeq(frags, LAMBDA f : HasDateTag(f) /\ TagOf(f) = tag)
    IN [i \in 1..Len(own) |-> RestOf(own[i])]

\* what a row with a failing date group is to yield: the event of every
\* sibling tag that normalizes, made of the fragments that carry that tag
GroupsKept(r) ==
    LET es == RowEvents(r, tz, now)
        frags == Fragments(r)
        good == SelectSeq(FirstSeenTags(frags, 1), TagNormalizes)
    IN /\ Len(es) = Len(good)
       /\ \A g \in 1..Len(good) :
             /\ Prop(es[g].resource, S_DeliveryDate) = Str(good[g])
             /\ es[g].start.day = normalizeDate(Str(good[g]), tz, now)
             /\ InjectedItems(es[g]) = ItemsTagged(frags, good[g])

\* C20: in a row with several date groups, a tag that fails normalization
\* removes only its own group: there is no event for it, and every sibling
\* tag that normalizes has its event, whose items are exactly the items of
\* the fragments that carry the sibling's tag (tag stripped, each fragment
\* parsed by the offline-items grammar).
C20_FailingTagDropsOnlyItsGroup ==
    Ingested =>
        \A k \in 1..Len(call.file) :
            HasFailingGroup(call.file[k]) => GroupsKept(call.file[k])

\* the same statement for the items cells without a double quote
C20_QuoteFreeCells ==
    Ingested =>
        \A k \in 1..Len(call.file) :
            (HasFailingGroup(call.file[k]) /\ QuoteCount(AllItemsCell(call.file[k])) = 0)
                => GroupsKept(call.file[k])

\* a row whose first tag fails and whose two other tags gave their events
C20_Witness ==
    /\ Ingested
    /\ Len(call.file) = 1 /\ HasFailingGroup(call.file[1])
    /\ HasDateTag(Fragments(call.file[1])[1])
    /\ ~TagNormalizes(TagOf(Fragments(call.file[1])[1]))
    /\ Len(events) = 2
    /\ events[1].start.day # events[2].start.day

(***************************************************************************)
(* Properties of rows with date tags (checked under SpecIngest).           *)
(***************************************************************************)
\* day and Delivery Date property of the events
DayAndDeliveryDate(es) ==
    [i \in 1..Len(es) |-> <<es[i].start.day, Prop(es[i].resource, S_DeliveryDate)>>]

\* day and Delivery Date property of the events a row with date tags is to
\* yield: those of its tags that normalize, in the order of first appearance
ExpectedTagDays(r) ==
    LET tags == FirstSeenTags(Fragments(r), 1)
    IN Flatten([g \in 1..Len(tags) |->
           LET d == normalizeDate(Str(tags[g]), tz, now)
           IN IF d = Null THEN <<>> ELSE << <<d, Str(tags[g])>> >>])

ExpectedC21(r) ==
    IF ~RecognizedOrderId(r) THEN <<>>
    ELSE IF HasTaggedFragment(r) THEN ExpectedTagDays(r)
    ELSE DayAndDeliveryDate(RowEvents(r, tz, now))

\* C21: when the items cell of a row has a date-tagged fragment, the
\* delivery date field of the row dates no event: the row yields only the
\* events of the tags that normalize, none when no tag normalizes, even if
\* the delivery date field holds a parseable date.
C21_DeliveryFieldUnusedWithTags ==
    Ingested =>
        DayAndDeliveryDate(events) =
            Flatten([k \in 1..Len(call.file) |-> ExpectedC21(call.file[k])])

\* a row with an order id, a parseable delivery date and only a failing tag
\* gave no event
C21_Witness ==
    /\ Ingested
    /\ Len(call.file) = 1
    /\ RecognizedOrderId(call.file[1]) /\ HasTaggedFragment(call.file[1])
    /\ normalizeDate(getValueFromRow(call.file[1], deliveryDateSynonyms), tz, now) # Null
    /\ events = <<>>

(***************************************************************************)
(* Properties of serial numbers (checked under SpecDate).                  *)
(***************************************************************************)
\* the call passed a number inside the serial window
SerialCall ==
    /\ call.op = "normalizeDate" /\ call.arg.t = "num"
    /\ (call.arg.whole > 25000 \/ (call.arg.whole = 25000 /\ call.arg.min > 0))
    /\ call.arg.whole < 100000

\* C22: for a serial s with 25000 < s < 100000, normalizeDate(s) is the day
\* that floor(s) encodes (serial 25569 = 1970-01-01), with its day, month
\* and four-digit year, whatever the time-of-day fraction of s.
C22_SerialDayPreserved ==
    SerialCall => ret = EncodedDay(call.arg)

\* where local time is UTC, a serial of the years 2000..2099 gives the day it
\* encodes
C22_SerialDayInUTCThisCentury ==
    (SerialCall /\ tz = 0 /\ EncodedDay(call.arg).y \in 2000..2099) =>
        ret = EncodedDay(call.arg)

\* C23: a number that is not strictly inside the serial window (at most
\* 25000 or at least 100000, 0 and small quantities included) is never
\* taken for a date: normalizeDate returns null for it.
C23_NumberOutsideWindowIsNull ==
    (call.op = "normalizeDate" /\ call.arg.t = "num" /\ ~SerialCall) => ret = Null

\* normalizeDate was called with a non-zero number at an edge of the window
\* or with a small quantity, and returned null
C23_Witness ==
    /\ call.op = "normalizeDate" /\ call.arg.t = "num"
    /\ call.arg.whole \in {5, 25000, 100000} /\ call.arg.min = 0
    /\ ret = Null

(***************************************************************************)
(* Rows and resources after ingestion (checked under SpecIngest).          *)
(***************************************************************************)
AssignedKeys == {S_OrderNumber, S_DeliveryDate, S_ItemsForEvent}

\* the resource has the columns of the row with their values, but for the
\* three properties assigned on it
CopyOf(resource, r) ==
    /\ Len(resource) >= Len(r)
    /\ \A j \in 1..Len(r) :
          /\ resource[j][1] = r[j][1]
          /\ r[j][1] \notin AssignedKeys => resource[j][2] = r[j][2]
    /\ \A j \in (Len(r) + 1)..Len(resource) : resource[j][1] \in AssignedKeys

\* the three properties of the resource are those of its own event: the
\* order id of the row, and either the tag of the event with the items of
\* the fragments under that tag, or the delivery date field of the row
OwnValues(e, r) ==
    /\ e.title = StringOf(getValueFromRow(r, orderNumberSynonyms))
    /\ Prop(e.resource, S_OrderNumber) = Str(e.title)
    /\ \A frags \in {Fragments(r)} :
          IF \E i \in 1..Len(frags) : HasDateTag(frags[i])
          THEN \E i \in 1..Len(frags) :
                  /\ HasDateTag(frags[i])
                  /\ normalizeDate(Str(TagOf(frags[i])), tz, now) = e.start.day
                  /\ Prop(e.resource, S_DeliveryDate) = Str(TagOf(frags[i]))
                  /\ Prop(e.resource, S_ItemsForEvent) =
                         ItemsValue(parseItemsFromOfflineCell(
                             Join(OwnFragments(frags, TagOf(frags[i])))))
          ELSE /\ Prop(e.resource, S_DeliveryDate) = getValueFromRow(r, deliveryDateSynonyms)
               /\ normalizeDate(Prop(e.resource, S_DeliveryDate), tz, now) = e.start.day
               /\ \A j \in 1..Len(e.resource) : e.resource[j][1] # S_ItemsForEvent

\* C24: ingestion does not change a raw row: after a batch every row has
\* the keys and values it had, the resource of each event is a copy of its
\* row, and the Order Number, Delivery Date and item list assigned for one
\* event show neither in the row nor in the resource of a sibling event
\* (each resource holds the values of its own event).
C24_RowsUntouchedResourcesOwn ==
    Ingested =>
        /\ call.rows = call.file
        /\ \A i \in 1..Len(events) :
              \E k \in 1..Len(call.file) :
                  /\ CopyOf(events[i].resource, call.file[k])
                  /\ OwnValues(events[i], call.file[k])

\* a row gave two events: each resource has its own tag and items, and the
\* row still has its delivery date and no item list
C24_Witness ==
    /\ Ingested
    /\ Len(call.file) = 1 /\ Len(events) = 2
    /\ Prop(events[1].resource, S_DeliveryDate) = Str(Tag10)
    /\ Prop(events[2].resource, S_DeliveryDate) = Str(Tag11)
    /\ Prop(events[1].resource, S_ItemsForEvent) # Prop(events[2].resource, S_ItemsForEvent)
    /\ Prop(call.rows[1], S_DeliveryDate) = Delivery12
    /\ Prop(call.rows[1], S_ItemsForEvent) = Undefined

(***************************************************************************)
(* Source of the line items (checked under SpecStats).                     *)
(***************************************************************************)
\* getParsedLineItems was called on a resource without an injected list
PlainItemsCall == call.op = "getParsedLineItems" /\ ~HasInjected(call.row)

\* the primary items field and the notes field of the resource
PrimaryField(row) ==
    getValueFromRow(row, <<S_OfflineOrderItems, S_Items, S_ProductsOrdered,
                           S_AddOfflineOrder, S_AddOrder>>)
NotesField(row) == getValueFromRow(row, <<S_Notes, S_SpecialInstructions>>)

\* the items a grammar gives from a field; none from a field without text
OfflineItemsOf(field) ==
    IF field.t = "str" THEN parseItemsFromOfflineCell(field.s) ELSE <<>>
NotesItemsOf(field) ==
    IF field.t = "str" THEN parseItemsFromNotes(field.s) ELSE <<>>

\* C25: for an event without an injected list, the notes grammar is applied
\* exactly when the primary items field is empty or the offline grammar
\* gave no item from it; when the primary field gives an item, the result
\* is made of its items only.
C25_NotesOnlyWhenPrimaryYieldsNothing ==
    PlainItemsCall =>
        \A fromOffline \in {OfflineItemsOf(PrimaryField(call.row))} :
            IF Len(fromOffline) > 0
            THEN ret = Consolidate(fromOffline)
            ELSE ret = Consolidate(NotesItemsOf(NotesField(call.row)))

\* the primary field gave an item and the notes field holds lines of the
\* notes grammar: the result has the items of the primary field only
C25_Witness ==
    /\ PlainItemsCall
    /\ Len(OfflineItemsOf(PrimaryField(call.row))) = 1
    /\ Len(NotesItemsOf(NotesField(call.row))) = 2
    /\ NameQty(ret) = << <<(<<"X">>), 2>> >>

\* no two items of the list have names that are equal ignoring case
DistinctNames(items) ==
    \A i, j \in 1..Len(items) :
        toLowerCase(items[i].name) = toLowerCase(items[j].name) => i = j

\* C26: for every emitted event, date-grouped or not, the list returned by
\* getParsedLineItems is consolidated: no two of its items have names that
\* are equal ignoring case.
C26_ResultConsolidated ==
    call.op = "getParsedLineItems" => DistinctNames(ret)

\* the same statement for the events without an injected list
C26_ConsolidatedWithoutInjectedList ==
    PlainItemsCall => DistinctNames(ret)

(***************************************************************************)
(* Fragments and units of a row with date tags (checked under SpecIngest). *)
(***************************************************************************)
UnitsOf(items) == SumSeq([i \in 1..Len(items) |-> items[i].quantity])

\* the injected items of the events, one list after the other
AllInjected(es) == Flatten([i \in 1..Len(es) |-> Prop(es[i].resource, S_ItemsForEvent).items])

\* the row has a recognized order id and date tags, which all normalize
AllTagsNormalize(r) ==
    /\ RecognizedOrderId(r)
    /\ HasTaggedFragment(r)
    /\ \A i \in 1..Len(Fragments(r)) :
          HasDateTag(Fragments(r)[i]) => TagNormalizes(TagOf(Fragments(r)[i]))

\* C27: in a row with a recognized order id whose date tags all normalize no
\* fragment of the items cell is lost: the events of the row hold as many
\* items, and as many units, as the offline-items parse of the whole cell,
\* also when some fragments carry no date tag.
C27_NoFragmentLost ==
    Ingested =>
        \A k \in 1..Len(call.file) :
            AllTagsNormalize(call.file[k]) =>
                \A es \in {RowEvents(call.file[k], tz, now)},
                   whole \in {parseItemsFromOfflineCell(AllItemsCell(call.file[k]))} :
                    /\ Len(AllInjected(es)) = Len(whole)
                    /\ UnitsOf(AllInjected(es)) = UnitsOf(whole)

\* the same statement for the cells whose fragments all carry a date tag and
\* hold no double quote
C27_NoTaggedFragmentLost ==
    Ingested =>
        \A k \in 1..Len(call.file) :
            (/\ AllTagsNormalize(call.file[k])
             /\ \A i \in 1..Len(Fragments(call.file[k])) : HasDateTag(Fragments(call.file[k])[i])
             /\ \A i \in 1..Len(AllItemsCell(call.file[k])) : AllItemsCell(call.file[k])[i] # "\"") =>
                \A es \in {RowEvents(call.file[k], tz, now)},
                   whole \in {parseItemsFromOfflineCell(AllItemsCell(call.file[k]))} :
                    /\ Len(AllInjected(es)) = Len(whole)
                    /\ UnitsOf(AllInjected(es)) = UnitsOf(whole)

(***************************************************************************)
(* The items cell of the materializer and of getParsedLineItems (checked   *)
(* under SpecStats).                                                       *)
(***************************************************************************)
itemsColumns ==
    {S_AddOfflineOrder, S_AddOrder, S_OfflineOrderItems, S_Items, S_ProductsOrdered}

\* the text of the cell that getParsedLineItems reads
OfflineCellText(row) == StringOf(OrElse(PrimaryField(row), Str(<<>>)))

\* C28: for a row that yields a single event without date groups, the items
\* cell that getParsedLineItems parses is the cell that the materializer
\* scanned for date tags, whichever of the items columns are present, empty
\* or not: a non-empty items column is not ignored because another one is
\* present and empty.
C28_SameItemsCell ==
    PlainItemsCall =>
        /\ OfflineCellText(call.row) = AllItemsCell(call.row)
        /\ parseItemsFromOfflineCell(AllItemsCell(call.row)) # <<>> =>
               ret = Consolidate(parseItemsFromOfflineCell(AllItemsCell(call.row)))

\* the same statement for the rows with one items column, holding text
C28_SameItemsCellWithOneColumn ==
    (/\ PlainItemsCall
     /\ Cardinality({j \in 1..Len(call.row) :
                        \E c \in itemsColumns : SameHeader(call.row[j][1], c)}) = 1
     /\ PrimaryField(call.row).t = "str") =>
        /\ OfflineCellText(call.row) = AllItemsCell(call.row)
        /\ parseItemsFromOfflineCell(AllItemsCell(call.row)) # <<>> =>
               ret = Consolidate(parseItemsFromOfflineCell(AllItemsCell(call.row)))

(***************************************************************************)
(* Two-digit years (checked under SpecDate).                               *)
(***************************************************************************)
\* one or two digits, a dash, one or two digits, a dash, two digits
IsDashedTwoDigitYear(s) ==
    \E a, b \in 1..2 :
        /\ Len(s) = a + b + 4
        /\ \A i \in 1..a : IsDigit(s[i])
        /\ s[a + 1] = "-"
        /\ \A i \in (a + 2)..(a + b + 1) : IsDigit(s[i])
        /\ s[a + b + 2] = "-"
        /\ IsDigit(s[a + b + 3]) /\ IsDigit(s[a + b + 4])

\* normalizeDate accepted a day-month-two-digit-year string
DashedCall ==
    /\ call.op = "normalizeDate" /\ call.arg.t = "str"
    /\ IsDashedTwoDigitYear(call.arg.s)
    /\ ret # Null

\* C29: a dash-separated day-month-two-digit-year string that normalizeDate
\* accepts, zero-padded or not, resolves to the year 2000 + YY, and the
\* result is the same at whatever date normalizeDate runs.
C29_TwoDigitYearIs2000Plus ==
    DashedCall =>
        /\ ret.y = 2000 + DigitsToNat(SubSeq(call.arg.s, Len(call.arg.s) - 1, Len(call.arg.s)))
        /\ \A year \in NowYears : normalizeDate(call.arg, tz, year) = ret

\* the same statement for the zero-padded strings
C29_PaddedTwoDigitYearIs2000Plus ==
    (DashedCall /\ Len(call.arg.s) = 8) =>
        /\ ret.y = 2000 + DigitsToNat(SubSeq(call.arg.s, 7, 8))
        /\ \A year \in NowYears : normalizeDate(call.arg, tz, year) = ret

(***************************************************************************)
(* Two uploads in flight (checked under SpecIngest).                       *)
(***************************************************************************)
\* two files were uploaded and one read is still in flight
OneReadLeftOfTwo == uploads = 2 /\ Len(pending) = 1

\* the file uploaded last: its read is the one in flight, or its onload was
\* the step before
LastUploaded == IF pending[1].n = 2 THEN pending[1].file ELSE call.file

\* C30: when two files are uploaded one after the other, once both reads
\* have completed the event list is the events of the file uploaded last,
\* in whichever order the two onload callbacks run.
C30_LastUploadWins ==
    [][(OneReadLeftOfTwo /\ pending' = <<>> /\ BatchAccepted(LastUploaded)) =>
           events' = EventsOut(LastUploaded, tz, now)]_vars

\* the same statement when the onload of the file uploaded last runs last
C30_LastOnloadWins ==
    [][(OneReadLeftOfTwo /\ pending' = <<>> /\ pending[1].n = 2
            /\ BatchAccepted(LastUploaded)) =>
           events' = EventsOut(LastUploaded, tz, now)]_vars

\* the events of the two files are not combined: the list is that of the
\* onload that ran last, or the list before it when its batch is rejected
C30_NeverCombined ==
    [][(OneReadLeftOfTwo /\ pending' = <<>>) =>
           events' = IF BatchAccepted(pending[1].file)
                     THEN EventsOut(pending[1].file, tz, now) ELSE events]_vars

====
